---- MODULE Spec2Model ----
(***************************************************************************)
(* A model of the sumo-k8 job controller: the submission pipeline          *)
(* (src/src/jobs.py), the tenant provisioner (src/src/scaling.py), the      *)
(* storage planner (src/src/storage.py) and the status reconciler          *)
(* (src/src/reconciler.py), run against a state store (the jobs table) and *)
(* an orchestrator (workloads, config blobs, namespaces).                  *)
(*                                                                         *)
(* Time is a bounded integer clock.  SQL NOW() is the start time of the    *)
(* current transaction of the connection that evaluates it.                *)
(***************************************************************************)
EXTENDS Integers, Sequences, FiniteSets, TLC

(***************************************************************************)
(* Bounds of the model.                                                    *)
(***************************************************************************)
MaxCalls == 2        \* submit_job calls (each allocates one job id)
MaxTime == 3         \* the clock runs 1..MaxTime

(***************************************************************************)
(* Program constants.                                                      *)
(***************************************************************************)
MAX_FILE_SIZE_MB == 100
max_chunk_size == 900000
NULL == 0            \* SQL NULL / Python None for a timestamp (times are >= 1)

Calls == 1..MaxCalls
JobIds == Calls      \* job_id = str(uuid.uuid4()): one fresh id per call
Times == 1..MaxTime

TenantIds == {"acme", "Beta_Lab"}

Active == {"PENDING", "RUNNING"}
Terminal == {"SUCCEEDED", "FAILED"}

VARIABLES
    k8s_available,   \* k8s_client.k8s_available, fixed at import
    storage_type,    \* what detect_storage_type() returns in this deployment
    now,             \* the clock
    tenants,         \* table tenants: tenant_id -> limits
    jobs,            \* table jobs: job_id -> row (a partial function)
    call,            \* the submit_job calls: position, arguments, result
    k8sJob,          \* orchestrator: the workload sim-<id> of each job
    nsObj,           \* orchestrator: namespace, quota, limit range, pvc per tenant
    cms,             \* orchestrator: payload config blobs sumo-<id>* of each job
    side,            \* orchestrator: upload / cleanup side-workloads and their scripts
    cleaners,        \* deferred cleanup_configmaps worker threads (job ids)
    rec,             \* the reconciler thread: position, fetched rows, open transaction
    obs,             \* history: what the sweep in progress has read
    pod,             \* orchestrator: the pod of the workload whose log is relayed
    relay,           \* one stream_job_logs generator: position, counters, events sent
    configmaps,           \* orchestrator: the config configmaps the orphan sweeper can list
    sweeper,         \* cleanup_old_configmaps: position, namespaces and configmaps left
    pool,            \* database.db_pool: who holds a connection, the last get_db
    completed,       \* history: the jobs whose workload reached Complete=True
    reads            \* the read endpoints: the last answer, the statuses answered

core == <<k8s_available, storage_type, now, tenants, jobs, call, k8sJob, nsObj,
          cms, side, cleaners, rec, obs>>
vars == <<core, pod, relay, configmaps, sweeper, pool, completed, reads>>

(***************************************************************************)
(* Pure functions of the submission pipeline.                              *)
(***************************************************************************)

\* validate_resource_request: the detail of the HTTPException it raises, or "ok".
validate_resource_request_below(cpu_request, memory_gi, tenant) ==
    IF cpu_request <= 0 \/ cpu_request >= tenant.max_cpu THEN "400-cpu"
    ELSE IF memory_gi <= 0 \/ memory_gi >= tenant.max_memory_gi THEN "400-memory"
    ELSE "ok"
validate_resource_request(cpu_request, memory_gi, tenant) ==
    IF cpu_request <= 0 \/ cpu_request > tenant.max_cpu THEN "400-cpu"
    ELSE IF memory_gi <= 0 \/ memory_gi > tenant.max_memory_gi THEN "400-memory"
    ELSE "ok"

\* zip_size_mb > MAX_FILE_SIZE_MB with zip_size_mb = len / 1024 / 1024 in true
\* division: dividing by a power of two is exact in binary floating point, so
\* the comparison is the one on the byte count.
TooLargeFloor(len) == (len \div 1024) \div 1024 > MAX_FILE_SIZE_MB
TooLarge(len) == len > MAX_FILE_SIZE_MB * 1024 * 1024

\* validate_and_extract_zip on a payload of `len` bytes whose content is
\* "ok" (a zip holding a .sumocfg), "badzip" or "nocfg".
validate_and_extract_zip(len, zip) ==
    IF len = 0 THEN "400-empty"
    ELSE IF TooLarge(len) THEN "413"
    ELSE IF zip = "badzip" THEN "400-badzip"
    ELSE IF zip = "nocfg" THEN "400-nocfg"
    ELSE "ok"

\* len(base64.b64encode(zip_content))
B64Len(len) == 4 * ((len + 2) \div 3)

\* min(a, b)
Min(a, b) == IF a < b THEN a ELSE b

\* num_chunks = (len(zip_b64) + max_chunk_size - 1) // max_chunk_size
num_chunks_floor(b64len) == b64len \div max_chunk_size
num_chunks(b64len) == (b64len + max_chunk_size - 1) \div max_chunk_size

\* The config blobs create_k8s_job stores the payload in: sumo-<id>-chunk<i>
\* holding the slice zip_b64[start:end] (the characters start .. end-1), or
\* the single blob sumo-<id> holding the whole string.
BlobNames(b64len) ==
    IF b64len > max_chunk_size
    THEN {[kind |-> "chunk", i |-> i,
           start |-> i * max_chunk_size,
           end |-> Min((i + 1) * max_chunk_size, b64len)] :
              i \in 0..(num_chunks(b64len) - 1)}
    ELSE {[kind |-> "single", i |-> 0, start |-> 0, end |-> b64len]}

\* "for i in $(seq 0 {num_chunks - 1})": the order the entry-point script
\* reads the chunks in.
ScriptOrderByName(n) ==
    LET Digits(k) == IF k < 10 THEN <<k>>
                     ELSE IF k < 100 THEN <<k \div 10, k % 10>>
                     ELSE <<k \div 100, (k \div 10) % 10, k % 10>>
        Before(a, b) ==
            \E p \in 1..3 :
               /\ \A q \in 1..(p - 1) :
                     q <= Len(a) /\ q <= Len(b) /\ a[q] = b[q]
               /\ \/ p > Len(a) /\ p <= Len(b)
                  \/ p <= Len(a) /\ p <= Len(b) /\ a[p] < b[p]
        Rank(i) == 1 + Cardinality({k \in 0..(n - 1) : Before(Digits(k), Digits(i))})
    IN  [p \in 1..n |-> CHOOSE i \in 0..(n - 1) : Rank(i) = p]
ScriptOrder(n) == [p \in 1..n |-> p - 1]

\* What the entry-point script hands to base64 -d: the slices it appended to
\* sumo_files.zip.b64, a slice that continues the one before it joined to it;
\* Missing when a chunk file is not mounted (cat fails under set -e).
Missing == <<[start |-> -1, end |-> -1]>>

\* The chunk file /config/chunk<i>/chunk as the script reads it.
ChunkFile(blobs, i) ==
    LET here == {b \in blobs : b.kind = "chunk" /\ b.i = i}
    IN  IF here = {} THEN Missing
        ELSE LET b == CHOOSE x \in here : TRUE
             IN  IF b.start = b.end THEN <<>>
                 ELSE <<[start |-> b.start, end |-> b.end]>>

\* ">>": text a followed by text b.
Cat(a, b) ==
    IF a = Missing \/ b = Missing THEN Missing
    ELSE IF a = <<>> THEN b
    ELSE IF b = <<>> THEN a
    ELSE IF a[Len(a)].end = b[1].start
    THEN SubSeq(a, 1, Len(a) - 1)
         \o <<[start |-> a[Len(a)].start, end |-> b[1].end]>> \o Tail(b)
    ELSE a \o b

\* The files order[lo] .. order[hi] appended one after the other (evaluated
\* by halves: appending is associative).
RECURSIVE Appended(_, _, _, _)
Appended(blobs, order, lo, hi) ==
    IF lo > hi THEN <<>>
    ELSE IF lo = hi THEN ChunkFile(blobs, order[lo])
    ELSE Cat(Appended(blobs, order, lo, (lo + hi) \div 2),
             Appended(blobs, order, ((lo + hi) \div 2) + 1, hi))

Reassemble(blobs, b64len) ==
    Appended(blobs, ScriptOrder(num_chunks(b64len)), 1, num_chunks(b64len))

\* SELECT COUNT(*) FROM jobs WHERE tenant_id = %s AND status IN ('PENDING','RUNNING')
ActiveCountPendingOnly(tenant_id) ==
    Cardinality({j \in DOMAIN jobs :
        jobs[j].tenant_id = tenant_id /\ jobs[j].status = "PENDING"})
ActiveCount(tenant_id) ==
    Cardinality({j \in DOMAIN jobs :
        jobs[j].tenant_id = tenant_id /\ jobs[j].status \in Active})

(***************************************************************************)
(* Requests.                                                               *)
(***************************************************************************)
FileLimit == MAX_FILE_SIZE_MB * 1024 * 1024

\* The lifecycle specification submits well-formed requests.
MainRequests == {[cpu |-> 1, mem |-> 1, size |-> 1, zip |-> "ok"]}

\* Payload sizes around the sharding thresholds: their encoded lengths are
\* 900000 (one blob), 900004 (two chunks), 1800000 (two), 1800004 (three).
ShardSizes == {675000, 675001, 1350000, 1350001}

\* The admission specification submits the boundary cases of every check.
AdmissionRequests ==
    {[cpu |-> c, mem |-> 1, size |-> 1, zip |-> "ok"] : c \in 0..3}
    \cup {[cpu |-> 1, mem |-> m, size |-> 1, zip |-> "ok"] : m \in {0, 2, 3, 4}}
    \cup {[cpu |-> 1, mem |-> 1, size |-> n, zip |-> "ok"] :
            n \in {0, FileLimit - 1, FileLimit, FileLimit + 1}}
    \cup {[cpu |-> 1, mem |-> 1, size |-> n, zip |-> "ok"] : n \in ShardSizes}
    \cup {[cpu |-> 1, mem |-> 1, size |-> 1, zip |-> z] : z \in {"badzip", "nocfg"}}
    \cup {[cpu |-> 3, mem |-> 1, size |-> FileLimit + 1, zip |-> "ok"],
          [cpu |-> 1, mem |-> 4, size |-> 0, zip |-> "badzip"]}

(***************************************************************************)
(* The initial state: the tenants are registered, no job has been          *)
(* submitted, the orchestrator holds nothing of theirs yet.                *)
(***************************************************************************)
\* The names in use, spelled out, so that create_tenant's
\* namespace = tenant_id.lower().replace('_', '-').replace(' ', '-')
\* is computed character by character.
Spelling ==
    ("" :> <<>>)
    @@ ("acme" :> <<"a", "c", "m", "e">>)
    @@ ("Beta_Lab" :> <<"B", "e", "t", "a", "_", "L", "a", "b">>)
    @@ ("beta-lab" :> <<"b", "e", "t", "a", "-", "l", "a", "b">>)

Lower(c) == CASE c = "B" -> "b" [] c = "L" -> "l" [] OTHER -> c

namespace_of(tenant_id) ==
    LET chars == Spelling[tenant_id]
        out == [i \in 1..Len(chars) |->
                  IF Lower(chars[i]) \in {"_", " "} THEN "-" ELSE Lower(chars[i])]
    IN  CHOOSE n \in DOMAIN Spelling : Spelling[n] = out

Namespaces == {namespace_of(t) : t \in TenantIds}

TenantRow(id, cpu, mem, conc) ==
    [tenant_id |-> id, namespace |-> namespace_of(id), max_cpu |-> cpu,
     max_memory_gi |-> mem, max_concurrent_jobs |-> conc]

NoTenant == TenantRow("", 0, 0, 0)
NoRequest == [cpu |-> 0, mem |-> 0, size |-> 0, zip |-> "ok"]

NoWorkload == [exists |-> FALSE, active |-> 0, cond |-> "none", start_time |-> NULL]
\* The reconciler's upload emission awaiting its row update: none.
NoUpload == [j |-> NULL, ok |-> FALSE]
NoPod == [exists |-> FALSE, phase |-> "Pending", lines |-> 0]
NoRelay == [pc |-> "idle", events |-> <<>>, last_line_count |-> 0,
            consecutive_errors |-> 0, last |-> "none",
            streak |-> 0, lists |-> 0]
NoSweeper == [pc |-> "sleep", namespaces |-> {}, configmaps |-> {}, kept |-> {},
              deleted |-> {}]
NoPool == [used |-> {}, last |-> [w |-> "", how |-> "none", rollback |-> FALSE,
                                  raised |-> FALSE, putconn |-> 0]]
NoAnswer == [endpoint |-> "none", job_id |-> NULL, tenant_id |-> "", code |-> 0,
             status |-> "", body |-> "", location |-> "", files |-> ""]
NoReads == [last |-> NoAnswer, returned |-> [j \in JobIds |-> "none"]]
NoSide == [uploadCM |-> FALSE, uploadJob |-> "absent",
           cleanupCM |-> FALSE, cleanupJob |-> FALSE]
NoNs == [ns |-> FALSE, quota |-> [exists |-> FALSE, cpu |-> 0, mem |-> 0, pods |-> 0],
         lr |-> [exists |-> FALSE, cpu |-> 0, mem |-> 0], pvc |-> FALSE]
\* p1, p1st: the answer and the start_time pass 1 read for a row;
\* terminalBefore: the rows that were terminal when the sweep began;
\* failedBefore: the rows whose submission had failed when the sweep began;
\* p4: the answer pass 4 read for a row.
NoObs == [p1 |-> [j \in JobIds |-> "none"], p1st |-> [j \in JobIds |-> NULL],
          terminalBefore |-> {}, failedBefore |-> {},
          p4 |-> [j \in JobIds |-> "none"]]

Init ==
    /\ k8s_available \in BOOLEAN
    /\ storage_type \in {"pvc", "s3"}
    /\ now = 1
    /\ tenants = [t \in TenantIds |->
                    IF t = "acme" THEN TenantRow(t, 2, 2, 1) ELSE TenantRow(t, 1, 3, 2)]
    /\ jobs = <<>>
    /\ call = [s \in Calls |->
                 [pc |-> "idle", tenant |-> NoTenant, req |-> NoRequest,
                  result |-> "none", detail |-> "", atcap |-> FALSE]]
    /\ k8sJob = [j \in JobIds |-> NoWorkload]
    /\ nsObj = [n \in Namespaces |-> NoNs]
    /\ cms = [j \in JobIds |-> {}]
    /\ pod = NoPod
    /\ relay = NoRelay
    /\ configmaps = {}
    /\ sweeper = NoSweeper
    /\ pool = NoPool
    /\ completed = {}
    /\ reads = NoReads
    /\ side = [j \in JobIds |-> NoSide]
    /\ cleaners = {}
    /\ rec = [pc |-> "sleep", snap |-> <<>>, tx |-> NULL, up |-> NoUpload]
    /\ obs = NoObs

(***************************************************************************)
(* get_db (src/src/database.py): the context manager every database access *)
(* goes through.  The pool hands out at most DB_POOL_MAX connections and   *)
(* raises PoolError beyond; a thread is inside at most one block.          *)
(***************************************************************************)
DB_POOL_MAX == 10
Handlers == {"h1", "h2", "h3", "h4", "h5", "h6", "h7", "h8", "h9"}
Workers == Handlers \cup {"reconciler", "sweeper"}

\* How a block ends: its body returns and the commit succeeds, the commit
\* raises, or the body raises.
BlockEnds == {"commit", "commit-raises", "raise"}

\* db_pool.getconn() has no connection left to give.
Exhausted == Cardinality(pool.used) >= DB_POOL_MAX

\* "conn = db_pool.getconn(); yield conn", or PoolError: conn stays None, the
\* handler has nothing to roll back, re-raises, and finally puts nothing.
get_db_enter(w) ==
    IF Exhausted
    THEN [pool EXCEPT !.last = [w |-> w, how |-> "PoolError", rollback |-> FALSE,
                                raised |-> TRUE, putconn |-> 0]]
    ELSE [pool EXCEPT !.used = @ \cup {w},
                      !.last = [w |-> w, how |-> "yield", rollback |-> FALSE,
                                raised |-> FALSE, putconn |-> 0]]

\* "finally: if conn: db_pool.putconn(conn)": the number of putconn calls.
putconn_on_commit(conn, how) == IF conn /\ how = "commit" THEN 1 ELSE 0
putconn(conn, how) == IF conn THEN 1 ELSE 0

\* The block ends: commit, or rollback and re-raise; then the finally clause.
get_db_exit(w, how) ==
    LET n == putconn(w \in pool.used, how)
    IN  [pool EXCEPT !.used = IF n > 0 THEN @ \ {w} ELSE @,
                     !.last = [w |-> w, how |-> how, rollback |-> how # "commit",
                               raised |-> how # "commit", putconn |-> n]]

\* A thread other than the reconciler enters a block, and leaves it.
GetDb(w) ==
    /\ w \notin pool.used
    /\ pool' = get_db_enter(w)
    /\ UNCHANGED <<reads, completed, core, pod, relay, configmaps, sweeper>>

BlockEnd(w) ==
    /\ w \in pool.used
    /\ \E how \in BlockEnds : pool' = get_db_exit(w, how)
    /\ UNCHANGED <<reads, completed, core, pod, relay, configmaps, sweeper>>

(***************************************************************************)
(* submit_job (src/src/jobs.py).  The endpoint is a coroutine on the       *)
(* server's one event loop and its only suspension point is `await         *)
(* sumo_files.read()`: what precedes the read runs as one slice, what      *)
(* follows it (payload validation, count, insert, namespace, workload) as  *)
(* another, during which no other submission runs.  The reconciler, the    *)
(* cleanup workers and the orchestrator are other threads and processes    *)
(* and interleave with every step.                                         *)
(***************************************************************************)

\* The calls past their read hold the event loop until they return.
OnLoop(c) == call[c].pc \in {"counted", "inserted", "ensured"}
LoopFree(s) == \A c \in Calls \ {s} : ~OnLoop(c)

\* The first slice: the tenant row is read (authentication), the resource
\* request validated, the payload read begun.
SubmitBegin(s, Requests) ==
    /\ call[s].pc = "idle"
    /\ LoopFree(s)
    /\ \A c \in Calls : c < s => call[c].pc # "idle"   \* numbered as they arrive
    /\ \E t \in TenantIds, req \in Requests :
         LET tenant == tenants[t]
             r == validate_resource_request(req.cpu, req.mem, tenant)
         IN  call' = [call EXCEPT ![s].tenant = tenant, ![s].req = req,
                                  ![s].pc = IF r = "ok" THEN "reading" ELSE "done",
                                  ![s].result = IF r = "ok" THEN "none" ELSE r]
    /\ UNCHANGED <<reads, completed, pool, configmaps, sweeper, pod, relay, k8s_available, storage_type, now, tenants, jobs, k8sJob, nsObj,
                   cms, side, cleaners, rec, obs>>

\* check_concurrent_jobs: its own transaction; raises 429 at the cap.
check_concurrent_jobs_above(tenant_id, max_concurrent) ==
    IF ActiveCount(tenant_id) > max_concurrent THEN "429" ELSE "ok"
check_concurrent_jobs(tenant_id, max_concurrent) ==
    IF ActiveCount(tenant_id) >= max_concurrent THEN "429" ELSE "ok"

\* The second slice up to the insert: the payload is validated, then the
\* tenant's active rows are counted.
Admit(req, tenant) ==
    LET p == validate_and_extract_zip(req.size, req.zip)
    IN  IF p # "ok" THEN p
        ELSE check_concurrent_jobs(tenant.tenant_id, tenant.max_concurrent_jobs)

CheckConcurrent(s) ==
    /\ call[s].pc = "reading"
    /\ LoopFree(s)
    /\ LET r == Admit(call[s].req, call[s].tenant)
       IN  call' = [call EXCEPT ![s].pc = IF r = "ok" THEN "counted" ELSE "done",
                                ![s].result = IF r = "ok" THEN "none" ELSE r,
                                \* history: the tenant was at its cap in this slice
                                ![s].atcap =
                                    Cardinality({j \in DOMAIN jobs :
                                        /\ jobs[j].tenant_id = call[s].tenant.tenant_id
                                        /\ jobs[j].status \in {"PENDING", "RUNNING"}})
                                      >= call[s].tenant.max_concurrent_jobs]
    /\ UNCHANGED <<reads, completed, pool, configmaps, sweeper, pod, relay, k8s_available, storage_type, now, tenants, jobs, k8sJob, nsObj,
                   cms, side, cleaners, rec, obs>>

\* The INSERT of the job row, committed in its own transaction.  submitted_at
\* is not in the column list: the table defaults it to NOW().
NewRow(s) ==
    [tenant_id |-> call[s].tenant.tenant_id,
     k8s_namespace |-> call[s].tenant.namespace,
     status |-> "PENDING",
     cpu_request |-> call[s].req.cpu, memory_gi |-> call[s].req.mem,
     submitted_at |-> now, started_at |-> NULL, finished_at |-> NULL,
     result_location |-> "NULL", result_files |-> "NULL"]

InsertRow(s) ==
    /\ call[s].pc = "counted"
    /\ jobs' = [j \in DOMAIN jobs \cup {s} |-> IF j = s THEN NewRow(s) ELSE jobs[j]]
    /\ call' = [call EXCEPT ![s].pc = "inserted"]
    /\ UNCHANGED <<reads, completed, pool, configmaps, sweeper, pod, relay, k8s_available, storage_type, now, tenants, k8sJob, nsObj,
                   cms, side, cleaners, rec, obs>>

(***************************************************************************)
(* ensure_tenant_namespace (src/src/scaling.py).  Each orchestrator object *)
(* is ensured in turn; `out` gives what the cluster answers for each:      *)
(* "ok" (the read answers, the write succeeds), "skip" (the read fails     *)
(* with an ApiException other than 404, which the code swallows) or        *)
(* "raise" (the call raises to the caller).                                *)
(***************************************************************************)
QuotaOf(tenant) ==
    [exists |-> TRUE, cpu |-> tenant.max_cpu, mem |-> tenant.max_memory_gi,
     pods |-> tenant.max_concurrent_jobs]
LimitRangeOf(tenant) ==
    [exists |-> TRUE, cpu |-> tenant.max_cpu, mem |-> tenant.max_memory_gi]

\* Drift detection: string equality on the cpu and memory fields only.
needs_update_always(existing, tenant) == TRUE
needs_update(existing, tenant) ==
    existing.cpu # tenant.max_cpu \/ existing.mem # tenant.max_memory_gi

EnsureOutcomes ==
    [ns : {"ok", "skip", "raise"}, quota : {"ok", "skip", "raise"},
     lr : {"ok", "skip", "raise"}, pvc : {"ok", "skip"}]

ensure_tenant_namespace(o, tenant, out) ==
    IF ~k8s_available THEN [o |-> o, writes |-> {}, raised |-> FALSE]
    ELSE IF out.ns = "raise" THEN [o |-> o, writes |-> {}, raised |-> TRUE]
    ELSE
    LET w1 == IF out.ns = "ok" /\ ~o.ns THEN {"create-namespace"} ELSE {}
        o1 == IF out.ns = "ok" THEN [o EXCEPT !.ns = TRUE] ELSE o
    \* in a namespace that is not there a read answers 404 and the create
    \* that follows raises
    IN  IF out.quota = "raise" \/ (out.quota = "ok" /\ ~o1.ns)
        THEN [o |-> o1, writes |-> w1, raised |-> TRUE]
        ELSE
        LET wq == IF out.quota # "ok" THEN {}
                  ELSE IF ~o1.quota.exists THEN {"create-quota"}
                  ELSE IF needs_update(o1.quota, tenant) THEN {"patch-quota"}
                  ELSE {}
            o2 == IF wq = {} THEN o1 ELSE [o1 EXCEPT !.quota = QuotaOf(tenant)]
        IN  IF out.lr = "raise" \/ (out.lr = "ok" /\ ~o2.ns)
            THEN [o |-> o2, writes |-> w1 \cup wq, raised |-> TRUE]
            ELSE
            LET wl == IF out.lr # "ok" THEN {}
                      ELSE IF ~o2.lr.exists THEN {"create-limitrange"}
                      ELSE IF needs_update(o2.lr, tenant) THEN {"patch-limitrange"}
                      ELSE {}
                o3 == IF wl = {} THEN o2 ELSE [o2 EXCEPT !.lr = LimitRangeOf(tenant)]
                \* ensure_tenant_pvc logs its own failures and never raises
                wp == IF out.pvc = "ok" /\ ~o3.pvc /\ o3.ns THEN {"create-pvc"} ELSE {}
                o4 == IF wp = {} THEN o3 ELSE [o3 EXCEPT !.pvc = TRUE]
            IN  [o |-> o4, writes |-> w1 \cup wq \cup wl \cup wp, raised |-> FALSE]

\* Every object answers, or the first call already raises.
MainEnsureOutcomes ==
    {[ns |-> "ok", quota |-> "ok", lr |-> "ok", pvc |-> "ok"],
     [ns |-> "raise", quota |-> "ok", lr |-> "ok", pvc |-> "ok"]}

\* Every orchestrator call of ensure_tenant_namespace succeeds.
AllOk == [ns |-> "ok", quota |-> "ok", lr |-> "ok", pvc |-> "ok"]

\* update_tenant_limits: UPDATE tenants SET <the fields given> ... RETURNING *
\* (NULL: the field was not given).
UpdateValues ==
    [max_cpu : {NULL, 2}, max_memory_gi : {NULL, 3},
     max_concurrent_jobs : {NULL, 2}]

update_tenant_limits(row, u) ==
    [row EXCEPT !.max_cpu = IF u.max_cpu # NULL THEN u.max_cpu ELSE @,
                !.max_memory_gi = IF u.max_memory_gi # NULL THEN u.max_memory_gi ELSE @,
                !.max_concurrent_jobs =
                    IF u.max_concurrent_jobs # NULL THEN u.max_concurrent_jobs ELSE @]

\* PATCH /auth/tenants/{tenant_id}: the row is updated and committed, then
\* ensure_tenant_namespace runs with the returned row; with no field given
\* the call is refused (400) before anything is written.
UpdateTenant(t) ==
    \E u \in UpdateValues :
       /\ \E f \in DOMAIN u : u[f] # NULL
       /\ LET row == update_tenant_limits(tenants[t], u)
              r == ensure_tenant_namespace(nsObj[row.namespace], row, AllOk)
          IN  /\ tenants' = [tenants EXCEPT ![t] = row]
              /\ nsObj' = [nsObj EXCEPT ![row.namespace] = r.o]
       /\ UNCHANGED <<reads, completed, pool, configmaps, sweeper, pod, relay, k8s_available, storage_type, now, jobs, call, k8sJob,
                      cms, side, cleaners, rec, obs>>

EnsureNamespace(s, Outcomes) ==
    /\ call[s].pc = "inserted"
    /\ \E out \in Outcomes :
         LET ns == call[s].tenant.namespace
             r == ensure_tenant_namespace(nsObj[ns], call[s].tenant, out)
         IN  /\ nsObj' = [nsObj EXCEPT ![ns] = r.o]
             /\ call' = [call EXCEPT ![s].pc = IF r.raised THEN "done" ELSE "ensured",
                                     ![s].result = IF r.raised THEN "500" ELSE "none"]
    /\ UNCHANGED <<reads, completed, pool, configmaps, sweeper, pod, relay, k8s_available, storage_type, now, tenants, jobs, k8sJob,
                   cms, side, cleaners, rec, obs>>

(***************************************************************************)
(* create_k8s_job (src/src/jobs.py): the payload config blobs, then the    *)
(* workload.  `out` is "ok", "blob-fails" (creating blob number `at`       *)
(* raises) or "job-fails" (creating the workload raises).  Nothing can be  *)
(* created in a namespace that is not there.                               *)
(***************************************************************************)
CreateOutcomes == {"ok", "blob-fails", "job-fails"}

\* configmap_chunks when creating blob `at` raises: the chunks created so far.
configmap_chunks_through(names, at) == {n \in names : n.i <= at.i}
configmap_chunks(names, at) == {n \in names : n.i < at.i}

\* cleanup_configmaps starts a daemon thread for job j and returns.
cleanup_configmaps_inline(started, j) == started
cleanup_configmaps(started, j) == started \cup {j}

CreateJob(s, Outcomes) ==
    /\ call[s].pc = "ensured"
    /\ LET names == BlobNames(B64Len(call[s].req.size))
       IN  IF ~k8s_available
           THEN /\ call' = [call EXCEPT ![s].pc = "done", ![s].result = "503"]
                /\ UNCHANGED <<cms, k8sJob, cleaners>>
           ELSE \E out \in (IF nsObj[call[s].tenant.namespace].ns
                             THEN Outcomes
                             ELSE Outcomes \cap {"blob-fails"}) :
                CASE out = "blob-fails" ->
                       \E at \in {n \in names :
                                    nsObj[call[s].tenant.namespace].ns \/ n.i = 0} :
                         LET created == configmap_chunks(names, at)
                         IN  \* the blobs already created are deleted, each
                             \* delete failing silently if it fails
                             \E kept \in SUBSET created :
                               /\ cms' = [cms EXCEPT ![s] = kept]
                               /\ call' = [call EXCEPT
                                             ![s].pc = "done",
                                             ![s].result = "500",
                                             ![s].detail = "Failed to store files"]
                               /\ UNCHANGED <<k8sJob, cleaners>>
                  [] out = "job-fails" ->
                       /\ cms' = [cms EXCEPT ![s] = names]
                       \* cleanup_configmaps(namespace, job_id, delay_seconds=0)
                       /\ cleaners' = cleanup_configmaps(cleaners, s)
                       /\ call' = [call EXCEPT ![s].pc = "done",
                                                ![s].result = "500",
                                                ![s].detail = "Failed to create job"]
                       /\ UNCHANGED k8sJob
                  [] out = "ok" ->
                       /\ cms' = [cms EXCEPT ![s] = names]
                       /\ k8sJob' = [k8sJob EXCEPT ![s] = [NoWorkload EXCEPT !.exists = TRUE]]
                       /\ call' = [call EXCEPT ![s].pc = "done", ![s].result = "200"]
                       /\ UNCHANGED cleaners
    /\ UNCHANGED <<reads, completed, pool, configmaps, sweeper, pod, relay, k8s_available, storage_type, now, tenants, jobs, nsObj,
                   side, rec, obs>>

\* The worker thread cleanup_configmaps starts: after the delay it lists the
\* namespace's config blobs and deletes those named sumo-<shortId>*; a failed
\* list or delete is logged and the blob stays.
ShortId(j) == j         \* job_id[:8]
configmap_name(j, b) ==
    IF b.kind = "chunk" THEN <<"sumo-", ShortId(j), "-chunk", b.i>>
    ELSE <<"sumo-", ShortId(j)>>
job_prefix(j) == <<"sumo-", ShortId(j)>>

\* cm.metadata.name.startswith(job_prefix)
startswith_sumo(name, prefix) == name[1] = prefix[1]
startswith(name, prefix) ==
    Len(name) >= Len(prefix) /\ SubSeq(name, 1, Len(prefix)) = prefix

\* list_namespaced_config_map(namespace): the payload blobs of the jobs of
\* the namespace, each with the job that named it.
ListedConfigMaps(namespace) ==
    {x \in UNION {{<<k, b>> : b \in cms[k]} : k \in DOMAIN jobs} :
        jobs[x[1]].k8s_namespace = namespace}

CleanerRun(j) ==
    /\ j \in cleaners
    /\ cleaners' = cleaners \ {j}
    /\ IF ~k8s_available THEN UNCHANGED cms
       ELSE LET matching ==
                  {x \in ListedConfigMaps(jobs[j].k8s_namespace) :
                      startswith(configmap_name(x[1], x[2]), job_prefix(j))}
            IN  \E failed \in SUBSET matching :
                   cms' = [k \in JobIds |->
                             {b \in cms[k] : <<k, b>> \notin matching \/ <<k, b>> \in failed}]
    /\ UNCHANGED <<reads, completed, pool, configmaps, sweeper, pod, relay, k8s_available, storage_type, now, tenants, jobs, call, k8sJob,
                   nsObj, side, rec, obs>>

(***************************************************************************)
(* The environment: the clock and the orchestrator's own controllers.      *)
(***************************************************************************)
Tick ==
    /\ now < MaxTime
    /\ now' = now + 1
    /\ UNCHANGED <<reads, completed, pool, configmaps, sweeper, pod, relay, k8s_available, storage_type, tenants, jobs, call, k8sJob, nsObj,
                   cms, side, cleaners, rec, obs>>

\* The job controller creates the pod: status.active = 1, status.start_time set.
WorkloadStart(j) ==
    /\ k8sJob[j].exists /\ k8sJob[j].cond = "none" /\ k8sJob[j].active = 0
    /\ k8sJob[j].start_time = NULL
    /\ k8sJob' = [k8sJob EXCEPT ![j].active = 1, ![j].start_time = now]
    /\ UNCHANGED <<reads, completed, pool, configmaps, sweeper, pod, relay, k8s_available, storage_type, now, tenants, jobs, call, nsObj,
                   cms, side, cleaners, rec, obs>>

\* The pod exits (backoff_limit=0: one attempt): condition Complete or Failed.
WorkloadFinish(j) ==
    /\ k8sJob[j].exists /\ k8sJob[j].active = 1
    /\ \E c \in {"Complete", "Failed"} :
         /\ k8sJob' = [k8sJob EXCEPT ![j].active = 0, ![j].cond = c]
         /\ completed' = IF c = "Complete" THEN completed \cup {j} ELSE completed
    /\ UNCHANGED <<reads, pool, configmaps, sweeper, pod, relay, k8s_available, storage_type, now, tenants, jobs, call, nsObj,
                   cms, side, cleaners, rec, obs>>

\* The workload disappears: ttl_seconds_after_finished, or an operator deletes it.
WorkloadDelete(j) ==
    /\ k8sJob[j].exists
    /\ k8sJob' = [k8sJob EXCEPT ![j] = NoWorkload]
    /\ UNCHANGED <<reads, completed, pool, configmaps, sweeper, pod, relay, k8s_available, storage_type, now, tenants, jobs, call, nsObj,
                   cms, side, cleaners, rec, obs>>

\* The upload side-workload finishes, or is collected (ttl 60 s).
UploadFinish(j) ==
    /\ side[j].uploadJob = "active"
    /\ \E r \in {"succeeded", "failed"} : side' = [side EXCEPT ![j].uploadJob = r]
    /\ UNCHANGED <<reads, completed, pool, configmaps, sweeper, pod, relay, k8s_available, storage_type, now, tenants, jobs, call, k8sJob,
                   nsObj, cms, cleaners, rec, obs>>

UploadDelete(j) ==
    /\ side[j].uploadJob \in {"succeeded", "failed"}
    /\ side' = [side EXCEPT ![j].uploadJob = "absent"]
    /\ UNCHANGED <<reads, completed, pool, configmaps, sweeper, pod, relay, k8s_available, storage_type, now, tenants, jobs, call, k8sJob,
                   nsObj, cms, cleaners, rec, obs>>

(***************************************************************************)
(* The storage planner (src/src/storage.py).                               *)
(***************************************************************************)
Cloud == {"s3", "gcs", "azure"}

\* get_result_storage_info(...).get("path", "") and .get("prefix", ""): "path"
\* stands for /results/<job_id>, "prefix" for the object-store prefix, "" for
\* the default of a key the handle does not hold.
\* get_result_storage_info(job_id, tenant_namespace, storage_type)["prefix"]
\* and the prefix the upload script is written with, as <<root, tenant, job>>.
StorageRoot(st) == IF st = "s3" THEN "sumo-k8-results" ELSE "results"
get_result_storage_info_prefix(job_id, tenant_namespace, st) ==
    <<StorageRoot(st), tenant_namespace, job_id>>
upload_script_prefix(job_id, tenant_id, st) ==
    <<StorageRoot(st), tenant_id, job_id>>

StoragePath(st) == IF st = "pvc" THEN "path" ELSE ""
StoragePrefix(st) == IF st \in Cloud THEN "prefix" ELSE ""

\* upload_results_from_pvc: what it leaves in the orchestrator and whether it
\* returns a handle (ok) or None.  The script blob is created first (a create
\* of an existing name is refused), then the side-workload.
upload_results_from_pvc(sd, st) ==
    IF st \notin Cloud \/ ~k8s_available THEN {[side |-> sd, ok |-> FALSE]}
    ELSE IF sd.uploadCM THEN {[side |-> sd, ok |-> FALSE]}
    ELSE {[side |-> sd, ok |-> FALSE],
          [side |-> [sd EXCEPT !.uploadCM = TRUE], ok |-> FALSE]}
         \cup (IF sd.uploadJob = "absent"
               THEN {[side |-> [sd EXCEPT !.uploadCM = TRUE, !.uploadJob = "active"],
                      ok |-> TRUE]}
               ELSE {})

\* cleanup_pvc_after_upload: the script blob, then the cleanup side-workload;
\* every failure is logged and swallowed.
cleanup_pvc_after_upload(sd) ==
    IF ~k8s_available \/ sd.cleanupCM THEN {sd}
    ELSE {sd, [sd EXCEPT !.cleanupCM = TRUE]}
         \cup (IF sd.cleanupJob THEN {}
               ELSE {[sd EXCEPT !.cleanupCM = TRUE, !.cleanupJob = TRUE]})

(***************************************************************************)
(* sync_job_status (src/src/reconciler.py): one sweep is four passes over  *)
(* the jobs table on one connection.  Each pass fetches its rows, then     *)
(* handles them one by one; every orchestrator read can answer ("ok"),     *)
(* answer 404, or fail otherwise ("err").                                  *)
(***************************************************************************)
Restrict(f, S) == [x \in S |-> f[x]]

\* NOW(): the start of the connection's current transaction, which the first
\* statement after a commit opens.
TxNow == IF rec.tx = NULL THEN now ELSE rec.tx

Coalesce(a, b) == IF a # NULL THEN a ELSE b

ReadOutcomes(exists) == {"err"} \cup (IF exists THEN {"ok"} ELSE {"404"})

\* The submission of job j ended in an error after its row was inserted.
EmissionFailed(j) ==
    j \in DOMAIN jobs /\ call[j].pc = "done" /\ call[j].result \in {"500", "503"}

\* Pass 1 starts the sweep: terminal rows with a missing timestamp.
TimestampRows ==
    {j \in DOMAIN jobs : /\ jobs[j].status \in Terminal
                         /\ (jobs[j].started_at = NULL \/ jobs[j].finished_at = NULL)}

SweepStart ==
    /\ rec.pc = "sleep"
    /\ k8s_available            \* otherwise the loop only sleeps
    /\ rec' = [pc |-> "p1", snap |-> Restrict(jobs, TimestampRows), tx |-> TxNow, up |-> NoUpload]
    /\ obs' = [NoObs EXCEPT
                  !.terminalBefore = {j \in DOMAIN jobs : jobs[j].status \in Terminal},
                  !.failedBefore = {j \in JobIds : EmissionFailed(j)}]
    \* with get_db() as conn
    /\ ~Exhausted
    /\ pool' = get_db_enter("reconciler")
    /\ UNCHANGED <<reads, completed, configmaps, sweeper, pod, relay, k8s_available, storage_type, now, tenants, jobs, call, k8sJob,
                   nsObj, cms, side, cleaners>>

\* The sweep cannot start: get_db raises PoolError, the loop logs and sleeps.
SweepStartFails ==
    /\ rec.pc = "sleep"
    /\ k8s_available
    /\ Exhausted
    /\ pool' = get_db_enter("reconciler")
    /\ UNCHANGED <<reads, completed, core, pod, relay, configmaps, sweeper>>

\* The timestamp backfill of one fetched row.
BackfillTimestamps(job, row, r, k8s_job) ==
    IF r = "err" THEN row
    ELSE [row EXCEPT
            !.finished_at = IF job.finished_at = NULL THEN TxNow ELSE @,
            !.started_at =
                IF job.started_at # NULL THEN @
                ELSE IF r = "ok" /\ k8s_job.start_time # NULL THEN k8s_job.start_time
                ELSE Coalesce(row.started_at, row.submitted_at)]

P1Row(j) ==
    /\ rec.pc = "p1" /\ j \in DOMAIN rec.snap
    /\ \E r \in ReadOutcomes(k8sJob[j].exists) :
         /\ jobs' = [jobs EXCEPT ![j] = BackfillTimestamps(rec.snap[j], jobs[j], r, k8sJob[j])]
         /\ rec' = [rec EXCEPT !.snap = Restrict(rec.snap, DOMAIN rec.snap \ {j}),
                               !.tx = IF r = "err" THEN @ ELSE NULL]
         /\ obs' = [obs EXCEPT !.p1[j] = r,
                               !.p1st[j] = IF r = "ok" THEN k8sJob[j].start_time ELSE NULL]
    /\ UNCHANGED <<reads, completed, pool, configmaps, sweeper, pod, relay, k8s_available, storage_type, now, tenants, call, k8sJob,
                   nsObj, cms, side, cleaners>>

\* Pass 2: terminal rows without a result_location.
LocationRows ==
    {j \in DOMAIN jobs : jobs[j].status \in Terminal /\ jobs[j].result_location = "NULL"}

P2Select ==
    /\ rec.pc = "p1" /\ DOMAIN rec.snap = {}
    /\ rec' = [pc |-> "p2", snap |-> Restrict(jobs, LocationRows), tx |-> TxNow, up |-> NoUpload]
    /\ UNCHANGED <<reads, completed, pool, configmaps, sweeper, pod, relay, k8s_available, storage_type, now, tenants, jobs, call, k8sJob,
                   nsObj, cms, side, cleaners, obs>>

\* The result_location the backfill pass writes; the upload's result is not looked at.
BackfillLocation(status, st) ==
    IF status = "SUCCEEDED"
    THEN IF st \in Cloud THEN StoragePrefix(st) ELSE StoragePath(st)
    ELSE "NULL"

P2Row(j) ==
    /\ rec.pc = "p2" /\ j \in DOMAIN rec.snap
    /\ \E up \in (IF rec.snap[j].status = "SUCCEEDED" /\ storage_type \in Cloud
                  THEN upload_results_from_pvc(side[j], storage_type)
                  ELSE {[side |-> side[j], ok |-> FALSE]}) :
         side' = [side EXCEPT ![j] = up.side]
    /\ jobs' = [jobs EXCEPT
                  ![j].result_location = BackfillLocation(rec.snap[j].status, storage_type),
                  ![j].result_files = "NULL"]
    /\ rec' = [rec EXCEPT !.snap = Restrict(rec.snap, DOMAIN rec.snap \ {j}),
                          !.tx = NULL]
    /\ UNCHANGED <<reads, completed, pool, configmaps, sweeper, pod, relay, k8s_available, storage_type, now, tenants, call, k8sJob,
                   nsObj, cms, cleaners, obs>>

\* Pass 3: SUCCEEDED rows whose upload may be pending.  LIKE '%results/%'
\* matches the volume path /results/<job_id> and the object-store prefixes.
LikeAnything(loc) == TRUE
LikeResults(loc) == loc \in {"path", "prefix"}

UploadRows ==
    {j \in DOMAIN jobs : /\ jobs[j].status = "SUCCEEDED"
                         /\ jobs[j].result_files = "NULL"
                         /\ jobs[j].result_location # "NULL"
                         /\ LikeResults(jobs[j].result_location)}

P3Select ==
    /\ rec.pc = "p2" /\ DOMAIN rec.snap = {}
    /\ rec' = [pc |-> "p3", snap |-> Restrict(jobs, UploadRows), tx |-> TxNow, up |-> NoUpload]
    /\ UNCHANGED <<reads, completed, pool, configmaps, sweeper, pod, relay, k8s_available, storage_type, now, tenants, jobs, call, k8sJob,
                   nsObj, cms, side, cleaners, obs>>

\* if upload_job.status.succeeded
upload_job_finished(sd) == sd.uploadJob \in {"succeeded", "failed"}
upload_job_succeeded(sd) == sd.uploadJob = "succeeded"

P3Row(j) ==
    /\ rec.pc = "p3" /\ j \in DOMAIN rec.snap
    /\ \E r \in ReadOutcomes(side[j].uploadJob # "absent") :
         IF r = "ok" /\ upload_job_succeeded(side[j])
         THEN /\ jobs' = [jobs EXCEPT ![j].result_files = "uploaded"]
              /\ \E sd \in (IF storage_type \in Cloud
                            THEN cleanup_pvc_after_upload(side[j]) ELSE {side[j]}) :
                   side' = [side EXCEPT ![j] = sd]
              /\ rec' = [rec EXCEPT !.snap = Restrict(rec.snap, DOMAIN rec.snap \ {j}),
                                    !.tx = NULL]
         ELSE /\ rec' = [rec EXCEPT !.snap = Restrict(rec.snap, DOMAIN rec.snap \ {j})]
              /\ UNCHANGED <<jobs, side>>
    /\ UNCHANGED <<reads, completed, pool, configmaps, sweeper, pod, relay, k8s_available, storage_type, now, tenants, call, k8sJob,
                   nsObj, cms, cleaners, obs>>

\* Pass 4: the active rows.
ActiveRowsAll == DOMAIN jobs
ActiveRows == {j \in DOMAIN jobs : jobs[j].status \in Active}

P4Select ==
    /\ rec.pc = "p3" /\ DOMAIN rec.snap = {}
    /\ rec' = [pc |-> "p4", snap |-> Restrict(jobs, ActiveRows), tx |-> TxNow, up |-> NoUpload]
    /\ UNCHANGED <<reads, completed, pool, configmaps, sweeper, pod, relay, k8s_available, storage_type, now, tenants, jobs, call, k8sJob,
                   nsObj, cms, side, cleaners, obs>>

\* The status the active-job pass maps a readable workload to.
new_status_from_pending(status, k8s_job) ==
    LET by_cond == IF k8s_job.cond = "Failed" THEN "FAILED"
                   ELSE IF k8s_job.cond = "Complete" THEN "SUCCEEDED"
                   ELSE "PENDING"
    IN  IF k8s_job.active > 0 /\ status = "PENDING" THEN "RUNNING" ELSE by_cond
new_status_complete_only(status, k8s_job) ==
    LET by_cond == IF k8s_job.cond = "Complete" THEN "SUCCEEDED" ELSE status
    IN  IF k8s_job.active > 0 /\ status = "PENDING" THEN "RUNNING" ELSE by_cond
new_status(status, k8s_job) ==
    LET by_cond == IF k8s_job.cond = "Failed" THEN "FAILED"
                   ELSE IF k8s_job.cond = "Complete" THEN "SUCCEEDED"
                   ELSE status
    IN  IF k8s_job.active > 0 /\ status = "PENDING" THEN "RUNNING" ELSE by_cond

\* The row the terminal edge writes: status, finished_at = NOW(),
\* started_at = COALESCE(started_at, NOW()), result_location, result_files.
TerminalLocation(status, st, upload_ok) ==
    IF status = "SUCCEEDED"
    THEN IF st \in Cloud /\ upload_ok THEN StoragePrefix(st) ELSE StoragePath(st)
    ELSE "NULL"

TerminalEdge(row, status, loc) ==
    [row EXCEPT !.status = status, !.finished_at = TxNow,
                !.started_at = Coalesce(@, TxNow),
                !.result_location = loc, !.result_files = "NULL"]

\* An ApiException other than 404, or any other exception, while the row is
\* handled: logged, the row is not written.
SyncFailedAsNotFound(row) == [row EXCEPT !.status = "FAILED", !.finished_at = TxNow]
SyncFailed(row) == row

\* The row the 404 handler writes.
NotFoundEdgeIgnored(row) == row
NotFoundEdgePendingOnly(row) ==
    IF row.status = "PENDING"
    THEN [row EXCEPT !.status = "FAILED", !.finished_at = TxNow] ELSE row
NotFoundEdgeNoFinish(row) == [row EXCEPT !.status = "FAILED"]
NotFoundEdge(row) == [row EXCEPT !.status = "FAILED", !.finished_at = TxNow]

\* "if new_status == SUCCEEDED: if storage_type in (s3, gcs, azure)": the
\* upload is triggered before the UPDATE is executed.
UploadFirst(ns) == ns = "SUCCEEDED" /\ storage_type \in Cloud

P4Row(j) ==
    /\ rec.pc = "p4" /\ j \in DOMAIN rec.snap /\ rec.up = NoUpload
    /\ \E r \in ReadOutcomes(k8sJob[j].exists) :
         LET job == rec.snap[j]
             ns == IF r = "ok" THEN new_status(job.status, k8sJob[j]) ELSE job.status
             rest == Restrict(rec.snap, DOMAIN rec.snap \ {j})
         IN  /\ obs' = [obs EXCEPT !.p4[j] = r]
             /\ CASE r = "err" ->
                       /\ jobs' = [jobs EXCEPT ![j] = SyncFailed(@)]
                       /\ rec' = [rec EXCEPT !.snap = rest]
                       /\ UNCHANGED <<side, cleaners>>
                  [] r = "404" ->
                       /\ jobs' = [jobs EXCEPT ![j] = NotFoundEdge(@)]
                       /\ rec' = [rec EXCEPT !.snap = rest, !.tx = NULL]
                       /\ UNCHANGED <<side, cleaners>>
                  [] r = "ok" /\ ns = job.status ->
                       /\ rec' = [rec EXCEPT !.snap = rest]
                       /\ UNCHANGED <<jobs, side, cleaners>>
                  [] r = "ok" /\ ns # job.status /\ ns = "RUNNING" ->
                       /\ jobs' = [jobs EXCEPT ![j].status = ns, ![j].started_at = TxNow]
                       /\ rec' = [rec EXCEPT !.snap = rest, !.tx = NULL]
                       /\ UNCHANGED <<side, cleaners>>
                  [] r = "ok" /\ ns # job.status /\ ns \in Terminal
                       /\ UploadFirst(ns) ->
                       \* upload_results_from_pvc runs before the row is
                       \* updated and committed (P4Commit)
                       /\ \E up \in upload_results_from_pvc(side[j], storage_type) :
                            /\ side' = [side EXCEPT ![j] = up.side]
                            /\ rec' = [rec EXCEPT !.up = [j |-> j, ok |-> up.ok]]
                       /\ UNCHANGED <<jobs, cleaners>>
                  [] r = "ok" /\ ns # job.status /\ ns \in Terminal
                       /\ ~UploadFirst(ns) ->
                       /\ jobs' = [jobs EXCEPT ![j] =
                            TerminalEdge(@, ns, TerminalLocation(ns, storage_type, FALSE))]
                       \* cleanup_configmaps(namespace, job_id): the deferred worker
                       /\ cleaners' = cleanup_configmaps(cleaners, j)
                       /\ rec' = [rec EXCEPT !.snap = rest, !.tx = NULL]
                       /\ UNCHANGED side
                  [] OTHER ->
                       /\ jobs' = [jobs EXCEPT ![j].status = ns]
                       /\ rec' = [rec EXCEPT !.snap = rest, !.tx = NULL]
                       /\ UNCHANGED <<side, cleaners>>
    /\ UNCHANGED <<reads, completed, pool, configmaps, sweeper, pod, relay, k8s_available, storage_type, now, tenants, call, k8sJob,
                   nsObj, cms>>

\* The row update and commit that follow the upload emission of row j.
P4Commit(j) ==
    /\ rec.pc = "p4" /\ rec.up.j = j
    /\ jobs' = [jobs EXCEPT ![j] =
         TerminalEdge(@, "SUCCEEDED",
                      TerminalLocation("SUCCEEDED", storage_type, rec.up.ok))]
    \* cleanup_configmaps(namespace, job_id): the deferred worker
    /\ cleaners' = cleanup_configmaps(cleaners, j)
    /\ rec' = [rec EXCEPT !.snap = Restrict(rec.snap, DOMAIN rec.snap \ {j}),
                          !.tx = NULL, !.up = NoUpload]
    /\ UNCHANGED <<reads, completed, pool, configmaps, sweeper, pod, relay, k8s_available, storage_type, now, tenants, call, k8sJob,
                   nsObj, cms, side, obs>>

\* The UPDATE of row j was executed and the cleanup worker started, but
\* conn.commit() raises: nothing of the edge is stored, the statements that
\* follow on the broken connection fail as well, the block ends by the
\* exception and the loop sleeps.
P4CommitFails(j) ==
    /\ rec.pc = "p4" /\ rec.up.j = j
    /\ cleaners' = cleanup_configmaps(cleaners, j)
    /\ rec' = [pc |-> "sleep", snap |-> <<>>, tx |-> NULL, up |-> NoUpload]
    /\ obs' = NoObs
    /\ pool' = get_db_exit("reconciler", "raise")
    /\ UNCHANGED <<reads, completed, configmaps, sweeper, pod, relay, k8s_available, storage_type, now,
                   tenants, jobs, call, k8sJob, nsObj, cms, side>>

\* The sweep ends: the connection's block commits, the loop sleeps.
SweepEnd ==
    /\ rec.pc = "p4" /\ DOMAIN rec.snap = {}
    /\ rec' = [pc |-> "sleep", snap |-> <<>>, tx |-> NULL, up |-> NoUpload]
    /\ obs' = NoObs
    /\ pool' = get_db_exit("reconciler", "commit")
    /\ UNCHANGED <<reads, completed, configmaps, sweeper, pod, relay, k8s_available, storage_type, now, tenants, jobs, call, k8sJob,
                   nsObj, cms, side, cleaners>>

(***************************************************************************)
(* stream_job_logs (src/src/logs.py): the generator behind one log stream. *)
(* The pod writes newline-terminated lines, numbered 1, 2, ...; an         *)
(* orchestrator call answers ("ok"), raises an ApiException ("api") or     *)
(* raises another exception ("exc").                                       *)
(***************************************************************************)
MaxLines == 3
tail_lines == 1000
max_errors == 10
CallOutcomes == {"ok", "api", "exc"}

\* logs.split('\n') of a log of n lines: the lines, then the empty string
\* after the last newline (0).
Split(first, n) == [i \in 1..(n - first + 2) |-> IF i <= n - first + 1 THEN first + i - 1 ELSE 0]

\* read_namespaced_pod_log(..., tail_lines=1000) and without tail_lines.
TailedLog(n) == Split(IF n > tail_lines THEN n - tail_lines + 1 ELSE 1, n)
FullLog(n) == Split(1, n)

\* lines[last_line_count:]
Beyond(lines, count) == SubSeq(lines, count + 1, Len(lines))

\* The events sent: a line of the log (its number), or another event (its
\* text, for a status event the phase).
Event(type, text) == [type |-> type, line |-> 0, text |-> text]
LineEvent(n) == [type |-> "message", line |-> n, text |-> ""]

\* "for line in new_lines: if line.strip(): yield message"
RECURSIVE Messages(_)
Messages(lines) ==
    IF lines = <<>> THEN <<>>
    ELSE (IF Head(lines) # 0 THEN <<LineEvent(Head(lines))>>
          ELSE <<>>) \o Messages(Tail(lines))

\* if consecutive_errors >= max_errors
TooManyErrorsAtOnce(n) == n >= 1
TooManyErrorsAbove(n) == n > max_errors
TooManyErrors(n) == n >= max_errors

\* The handler "except ApiException" of the tailing loop.
TailApiError ==
    LET n == relay.consecutive_errors + 1
    IN  IF TooManyErrors(n)
        THEN [relay EXCEPT !.consecutive_errors = n, !.last = "api", !.pc = "closed",
                           !.streak = @ + 1,
                           !.events = Append(@, Event("error", "Too many errors"))]
        ELSE [relay EXCEPT !.consecutive_errors = n, !.last = "api", !.pc = "tail",
                           !.streak = @ + 1]

\* The handlers "except Exception": one error event, the stream ends.
RelayExceptionAt(Listed) ==
    [relay EXCEPT !.last = "exc", !.pc = "closed", !.lists = Listed,
                  !.events = Append(@, Event("error", "exception"))]
RelayException == RelayExceptionAt(relay.lists)

\* The stream is opened.
RelayOpen ==
    /\ relay.pc = "idle"
    /\ relay' = IF ~k8s_available
                THEN [relay EXCEPT !.pc = "closed",
                        !.events = <<Event("error", "Kubernetes not available")>>]
                ELSE [relay EXCEPT !.pc = "find"]
    /\ UNCHANGED <<reads, completed, pool, core, pod, configmaps, sweeper>>

\* "if not pods.items": the first time a message and the wait, the second
\* time an error event and the return.
NoPodsTailAnyway(second) ==
    IF second
    THEN [relay EXCEPT !.pc = "tail", !.last = "ok", !.lists = @ + 1]
    ELSE [relay EXCEPT !.pc = "wait", !.last = "ok", !.lists = @ + 1,
                       !.events = Append(@, Event("message", "No pod found yet. Waiting..."))]
NoPods(second) ==
    IF second
    THEN [relay EXCEPT !.pc = "closed", !.last = "ok", !.lists = @ + 1,
                       !.events = Append(@, Event("error", "Pod not found"))]
    ELSE [relay EXCEPT !.pc = "wait", !.last = "ok", !.lists = @ + 1,
                       !.events = Append(@, Event("message", "No pod found yet. Waiting..."))]

\* The first pod listing, and the one after the 2 s wait.
ListPods(second) ==
    \E r \in CallOutcomes :
       relay' =
          IF r # "ok" THEN RelayExceptionAt(relay.lists + 1)
          ELSE IF pod.exists
          THEN [relay EXCEPT !.pc = "tail", !.last = "ok", !.lists = @ + 1,
                             !.events = Append(@, Event("pod", pod.phase))]
          ELSE NoPods(second)

FindPod ==
    /\ relay.pc = "find"
    /\ ListPods(FALSE)
    /\ UNCHANGED <<reads, completed, pool, core, pod, configmaps, sweeper>>

WaitPod ==
    /\ relay.pc = "wait"
    /\ ListPods(TRUE)
    /\ UNCHANGED <<reads, completed, pool, core, pod, configmaps, sweeper>>

\* The log of a pod can be read once its container has started and until the
\* pod is deleted; before and after, the read is answered with an error.
Readable == pod.exists /\ pod.phase # "Pending"

\* One poll of the tailing loop: the tailed log is read and its new lines sent.
TailRead ==
    /\ relay.pc = "tail"
    /\ \E r \in (IF Readable THEN CallOutcomes ELSE {"api", "exc"}) :
         relay' =
            IF r = "api" THEN TailApiError
            ELSE IF r = "exc" THEN RelayException
            ELSE LET lines == TailedLog(pod.lines)
                 IN  [relay EXCEPT
                        !.events = @ \o Messages(Beyond(lines, relay.last_line_count)),
                        !.last_line_count = Len(lines),
                        !.consecutive_errors = 0, !.last = "ok", !.pc = "phase",
                        !.streak = 0]
    /\ UNCHANGED <<reads, completed, pool, core, pod, configmaps, sweeper>>

\* The poll goes on: the pods are listed again and the phase looked at.
TailPhase ==
    /\ relay.pc = "phase"
    /\ \E r \in CallOutcomes :
         relay' =
            IF r = "api" THEN TailApiError
            ELSE IF r = "exc" THEN RelayException
            ELSE IF ~pod.exists
            THEN [relay EXCEPT !.pc = "closed", !.last = "ok",
                     !.streak = 0,
                     !.events = Append(@, Event("message", "Pod has terminated"))]
            ELSE IF pod.phase \in {"Succeeded", "Failed"}
            THEN [relay EXCEPT !.pc = "final", !.last = "ok", !.streak = 0]
            ELSE [relay EXCEPT !.pc = "tail", !.last = "ok", !.streak = 0]
    /\ UNCHANGED <<reads, completed, pool, core, pod, configmaps, sweeper>>

\* The pod was seen finished: the full log is read, what is left of it sent,
\* then the status event.
CollectFinal ==
    /\ relay.pc = "final"
    /\ \E r \in (IF Readable THEN CallOutcomes ELSE {"api", "exc"}) :
         relay' =
            IF r = "api" THEN TailApiError
            ELSE IF r = "exc" THEN RelayException
            ELSE [relay EXCEPT
                    !.events = (@ \o Messages(Beyond(FullLog(pod.lines),
                                                     relay.last_line_count)))
                               \o <<Event("status", pod.phase)>>,
                    !.last = "ok", !.pc = "closed", !.streak = 0]
    /\ UNCHANGED <<reads, completed, pool, core, pod, configmaps, sweeper>>

\* The pod: created, started, writing lines, finished, collected.
PodStep ==
    /\ \/ ~pod.exists /\ pod = NoPod /\ pod' = [NoPod EXCEPT !.exists = TRUE]
       \/ pod.exists /\ pod.phase = "Pending" /\ pod' = [pod EXCEPT !.phase = "Running"]
       \/ pod.exists /\ pod.phase = "Running" /\ pod.lines < MaxLines
             /\ pod' = [pod EXCEPT !.lines = @ + 1]
       \/ pod.exists /\ pod.phase = "Running"
             /\ \E ph \in {"Succeeded", "Failed"} : pod' = [pod EXCEPT !.phase = ph]
       \/ pod.exists /\ pod.phase \in {"Succeeded", "Failed"}
             /\ pod' = [pod EXCEPT !.exists = FALSE]
    /\ UNCHANGED <<reads, completed, pool, core, relay, configmaps, sweeper>>

(***************************************************************************)
(* cleanup_old_configmaps (src/src/reconciler.py): the orphan sweeper.  A  *)
(* config blob is known by its namespace, its labels (NULL: the label is   *)
(* absent) and its creation time; the clock of this part counts hours.     *)
(***************************************************************************)
MaxBlobs == 2
one_hour == 1
StaleJobId == MaxCalls + 1      \* a job-id no row of the state store has
AllNamespaces == {namespace_of("acme"), "kube-system"}
CleanupLabels == {"true", "false", "NULL"}

\* ns.metadata.name.startswith('kube-')
Skipped(ns) == ns = "kube-system"

\* The rows another run of the service left in the state store.
OldRow(status) ==
    [tenant_id |-> "acme", k8s_namespace |-> namespace_of("acme"), status |-> status,
     cpu_request |-> 1, memory_gi |-> 1,
     submitted_at |-> 1,
     started_at |-> IF status = "PENDING" THEN NULL ELSE 1,
     finished_at |-> IF status \in Terminal THEN 1 ELSE NULL,
     result_location |-> IF status = "SUCCEEDED" THEN "path" ELSE "NULL",
     result_files |-> "NULL"]

\* Someone creates a config blob: the service for a job that has a row
\* (create_configmaps comes after the insert), or anyone else.
BlobCreate ==
    /\ Cardinality(configmaps) < MaxBlobs
    /\ \E ns \in AllNamespaces, c \in CleanupLabels,
          j \in DOMAIN jobs \cup {NULL, StaleJobId} :
          configmaps' = configmaps \cup {[ns |-> ns, cleanup |-> c, job_id |-> j, created |-> now]}
    /\ UNCHANGED <<reads, completed, pool, core, pod, relay, sweeper>>

\* The sweeper wakes up and lists the namespaces.
SweeperWake ==
    /\ sweeper.pc = "sleep"
    /\ k8s_available
    /\ \E r \in {"ok", "raise"} :
         sweeper' = IF r = "ok"
                    THEN [sweeper EXCEPT !.pc = "namespaces", !.namespaces = AllNamespaces,
                                         !.kept = {}, !.deleted = {}]
                    ELSE sweeper
    /\ UNCHANGED <<reads, completed, pool, core, pod, relay, configmaps>>

\* The next namespace: skipped, or its config blobs listed.
SweeperList(ns) ==
    /\ sweeper.pc = "namespaces"
    /\ ns \in sweeper.namespaces
    /\ \E r \in {"ok", "raise"} :
         sweeper' =
            IF Skipped(ns) \/ r = "raise"
            THEN [sweeper EXCEPT !.namespaces = @ \ {ns}]
            ELSE [sweeper EXCEPT !.namespaces = @ \ {ns}, !.pc = "configmaps",
                                 !.configmaps = {b \in configmaps : b.ns = ns}]
    /\ UNCHANGED <<reads, completed, pool, core, pod, relay, configmaps>>

\* The test a listed blob passes before its job-id is looked up.
OrphanCandidateAnyAge(cm) ==
    cm.cleanup = "true" /\ cm.job_id # NULL
OrphanCandidate(cm) ==
    cm.cleanup = "true" /\ now - cm.created > one_hour /\ cm.job_id # NULL

\* "SELECT job_id FROM jobs WHERE job_id = %s": cur.fetchone()
HasRow(job_id) == job_id \in DOMAIN jobs

\* One listed blob: tested, looked up, deleted (the delete may fail).
SweeperBlob(cm) ==
    /\ sweeper.pc = "configmaps"
    /\ cm \in sweeper.configmaps
    /\ IF OrphanCandidate(cm) /\ ~HasRow(cm.job_id)
       THEN \E r \in {"ok", "raise"} :
               /\ configmaps' = IF r = "ok" THEN configmaps \ {cm} ELSE configmaps
               /\ sweeper' = [sweeper EXCEPT
                                 !.configmaps = @ \ {cm},
                                 !.deleted = IF r = "ok" /\ cm \in configmaps
                                             THEN @ \cup {cm} ELSE @]
       ELSE /\ UNCHANGED configmaps
            /\ sweeper' = [sweeper EXCEPT !.configmaps = @ \ {cm},
                                          !.kept = @ \cup {cm}]
    /\ UNCHANGED <<reads, completed, pool, core, pod, relay>>

\* The blobs of the namespace are done, then the namespaces, then the sleep.
SweeperNext ==
    /\ \/ /\ sweeper.pc = "configmaps" /\ sweeper.configmaps = {}
          /\ sweeper' = [sweeper EXCEPT !.pc = "namespaces"]
       \/ /\ sweeper.pc = "namespaces" /\ sweeper.namespaces = {}
          /\ sweeper' = [sweeper EXCEPT !.pc = "sleep"]
    /\ UNCHANGED <<reads, completed, pool, core, pod, relay, configmaps>>

\* What list_namespaced_config_map shows of the blobs made for job j: the
\* payload blobs carry the labels job-id and cleanup=true, the upload and
\* cleanup scripts carry no label.
PayloadBlob(j) ==
    [ns |-> jobs[j].k8s_namespace, cleanup |-> "true", job_id |-> j,
     created |-> jobs[j].submitted_at]
ScriptBlob(j) ==
    [ns |-> jobs[j].k8s_namespace, cleanup |-> "NULL", job_id |-> NULL,
     created |-> jobs[j].submitted_at]

Orphan(cm) == OrphanCandidate(cm) /\ ~HasRow(cm.job_id)

\* One pass of the orphan sweeper over the blobs made for job j.
SweepJob(j) ==
    /\ k8s_available /\ j \in DOMAIN jobs
    /\ cms' = [cms EXCEPT ![j] = IF Orphan(PayloadBlob(j)) THEN {} ELSE @]
    /\ side' = [side EXCEPT
                  ![j].uploadCM = IF Orphan(ScriptBlob(j)) THEN FALSE ELSE @,
                  ![j].cleanupCM = IF Orphan(ScriptBlob(j)) THEN FALSE ELSE @]
    /\ sweeper' = [sweeper EXCEPT
                     !.kept = @ \cup {cm \in {PayloadBlob(j), ScriptBlob(j)} : ~Orphan(cm)},
                     !.deleted = @ \cup {cm \in {PayloadBlob(j), ScriptBlob(j)} : Orphan(cm)}]
    /\ UNCHANGED <<reads, completed, pool, configmaps, pod, relay, k8s_available,
                   storage_type, now, tenants, jobs, call, k8sJob, nsObj, cleaners,
                   rec, obs>>

(***************************************************************************)
(* The read endpoints (src/app.py, src/src/jobs.py): job status, log       *)
(* snapshot, log stream and results lookup.  Each selects the row by       *)
(* job_id AND tenant_id and answers 404 when no row comes back.            *)
(***************************************************************************)
\* SELECT ... FROM jobs WHERE job_id = %s AND tenant_id = %s returns a row.
OwnRowAnyTenant(job_id, tenant_id) == job_id \in DOMAIN jobs
OwnRow(job_id, tenant_id) ==
    job_id \in DOMAIN jobs /\ jobs[job_id].tenant_id = tenant_id

Answer(endpoint, job_id, tenant_id, code, status, body) ==
    [endpoint |-> endpoint, job_id |-> job_id, tenant_id |-> tenant_id,
     code |-> code, status |-> status, body |-> body,
     location |-> "", files |-> ""]

\* raise HTTPException(status_code=404, detail="Job not found")
NotFound(endpoint, job_id, tenant_id) ==
    Answer(endpoint, job_id, tenant_id, 404, "", "Job not found")

\* get_job_status: the live status of the workload when the orchestrator
\* answers the read (r = "ok"), the row's status otherwise.
live_status(row_status, k8s_job, r) ==
    IF ~k8s_available \/ r # "ok" THEN row_status
    ELSE IF k8s_job.cond = "Complete" THEN "SUCCEEDED"
    ELSE IF k8s_job.cond = "Failed" THEN "FAILED"
    ELSE IF k8s_job.active = 1 THEN "RUNNING"
    ELSE row_status

get_job_status(job_id, tenant_id, r) ==
    IF ~OwnRow(job_id, tenant_id) THEN NotFound("status", job_id, tenant_id)
    ELSE Answer("status", job_id, tenant_id, 200,
                live_status(jobs[job_id].status, k8sJob[job_id], r), "")

\* get_job_logs: the snapshot of the pod's log, or a text saying why not.
get_job_logs(job_id, tenant_id, r) ==
    IF ~k8s_available
    THEN Answer("logs", job_id, tenant_id, 200, "", "Kubernetes not available")
    ELSE IF r # "ok" THEN Answer("logs", job_id, tenant_id, 200, "", "error")
    ELSE IF ~pod.exists
    THEN Answer("logs", job_id, tenant_id, 200, "", "No pod found yet")
    ELSE Answer("logs", job_id, tenant_id, 200, "", "logs")

get_job_logs_endpoint(job_id, tenant_id, r) ==
    IF ~OwnRow(job_id, tenant_id) THEN NotFound("logs", job_id, tenant_id)
    ELSE get_job_logs(job_id, tenant_id, r)

\* stream_job_logs_endpoint: the generator of the relay is handed back.
stream_job_logs_endpoint(job_id, tenant_id) ==
    IF ~OwnRow(job_id, tenant_id) THEN NotFound("stream", job_id, tenant_id)
    ELSE Answer("stream", job_id, tenant_id, 200, "", "stream")

get_job_results(job_id, tenant_id) ==
    IF ~OwnRow(job_id, tenant_id) THEN NotFound("results", job_id, tenant_id)
    ELSE LET job == jobs[job_id]
         IN  IF job.status # "SUCCEEDED"
             THEN Answer("results", job_id, tenant_id, 200, job.status,
                         "Job has not completed successfully")
             ELSE [Answer("results", job_id, tenant_id, 200, "",
                          IF storage_type = "pvc" THEN "Results stored in PVC"
                          ELSE IF job.result_files # "NULL" THEN "files"
                          ELSE "Results are being uploaded to object storage")
                     EXCEPT !.location = job.result_location,
                            !.files = job.result_files]

GetJobStatus(j, t) ==
    /\ \E r \in ReadOutcomes(k8sJob[j].exists) :
         LET a == get_job_status(j, t, r)
         IN  reads' = [last |-> a,
                       returned |-> IF a.code = 200
                                    THEN [reads.returned EXCEPT ![j] = a.status]
                                    ELSE reads.returned]
    /\ UNCHANGED <<completed, pool, core, pod, relay, configmaps, sweeper>>

GetJobLogs(j, t) ==
    /\ \E r \in {"ok", "exc"} :
         reads' = [reads EXCEPT !.last = get_job_logs_endpoint(j, t, r)]
    /\ UNCHANGED <<completed, pool, core, pod, relay, configmaps, sweeper>>

StreamJobLogs(j, t) ==
    /\ reads' = [reads EXCEPT !.last = stream_job_logs_endpoint(j, t)]
    /\ UNCHANGED <<completed, pool, core, pod, relay, configmaps, sweeper>>

GetJobResults(j, t) ==
    /\ reads' = [reads EXCEPT !.last = get_job_results(j, t)]
    /\ UNCHANGED <<completed, pool, core, pod, relay, configmaps, sweeper>>

(***************************************************************************)
(* The specifications.                                                     *)
(***************************************************************************)
Reconciler ==
    \/ SweepStart
    \/ P2Select
    \/ P3Select
    \/ P4Select
    \/ SweepEnd
    \/ \E j \in JobIds : P1Row(j)
    \/ \E j \in JobIds : P2Row(j)
    \/ \E j \in JobIds : P3Row(j)
    \/ \E j \in JobIds : P4Row(j)

Orchestrator ==
    \/ \E j \in JobIds : WorkloadStart(j)
    \/ \E j \in JobIds : WorkloadFinish(j)
    \/ \E j \in JobIds : WorkloadDelete(j)
    \/ \E j \in JobIds : UploadFinish(j)
    \/ \E j \in JobIds : UploadDelete(j)

Next ==
    \/ \E s \in Calls : SubmitBegin(s, MainRequests)
    \/ \E s \in Calls : CheckConcurrent(s)
    \/ \E s \in Calls : InsertRow(s)
    \/ \E s \in Calls : EnsureNamespace(s, MainEnsureOutcomes)
    \/ \E s \in Calls : CreateJob(s, CreateOutcomes)
    \/ \E j \in JobIds : CleanerRun(j)
    \/ Reconciler
    \/ \E j \in JobIds : P4Commit(j)
    \/ Orchestrator

Spec == Init /\ [][Next]_vars

\* One submission under the running clock, on a cluster whose results stay
\* on the shared volume.
TimedCalls == {1}

TimedInit == Init /\ k8s_available /\ storage_type = "pvc"

TimedNext ==
    \/ Tick
    \/ \E s \in TimedCalls : SubmitBegin(s, MainRequests)
    \/ \E s \in TimedCalls : CheckConcurrent(s)
    \/ \E s \in TimedCalls : InsertRow(s)
    \/ \E s \in TimedCalls : EnsureNamespace(s, EnsureOutcomes)
    \/ \E s \in TimedCalls : CreateJob(s, CreateOutcomes)
    \/ \E j \in TimedCalls : CleanerRun(j)
    \/ Reconciler
    \/ \E j \in TimedCalls : WorkloadStart(j)
    \/ \E j \in TimedCalls : WorkloadFinish(j)
    \/ \E j \in TimedCalls : WorkloadDelete(j)

TimedSpec == TimedInit /\ [][TimedNext]_vars

\* The submissions alone, over the boundary requests, on a cluster that
\* accepts what it is asked to create (or is not there at all).
AdmissionNext ==
    \/ \E s \in Calls : SubmitBegin(s, AdmissionRequests)
    \/ \E s \in Calls : CheckConcurrent(s)
    \/ \E s \in Calls : InsertRow(s)
    \/ \E s \in Calls : EnsureNamespace(s, MainEnsureOutcomes)
    \/ \E s \in Calls : CreateJob(s, {"ok"})

AdmissionSpec == Init /\ [][AdmissionNext]_vars

\* The submissions over payloads of one, two and three config blobs, on a
\* cluster where creating a blob or the workload can fail, with the cleanup
\* threads they start.
ShardRequests ==
    {[cpu |-> 1, mem |-> 1, size |-> n, zip |-> "ok"] : n \in {1, 675001, 1350001}}

ShardNext ==
    \/ \E s \in Calls : SubmitBegin(s, ShardRequests)
    \/ \E s \in Calls : CheckConcurrent(s)
    \/ \E s \in Calls : InsertRow(s)
    \/ \E s \in Calls : EnsureNamespace(s, MainEnsureOutcomes)
    \/ \E s \in Calls : CreateJob(s, CreateOutcomes)
    \/ \E j \in JobIds : CleanerRun(j)

ShardSpec == Init /\ [][ShardNext]_vars

\* The submissions on a cluster that answers, with the tenants' limits being
\* updated meanwhile.
TenantNext ==
    \/ \E s \in Calls : SubmitBegin(s, MainRequests)
    \/ \E s \in Calls : CheckConcurrent(s)
    \/ \E s \in Calls : InsertRow(s)
    \/ \E s \in Calls : EnsureNamespace(s, MainEnsureOutcomes)
    \/ \E s \in Calls : CreateJob(s, {"ok"})
    \/ \E t \in TenantIds : UpdateTenant(t)

TenantSpec == Init /\ [][TenantNext]_vars

\* One submission on a cluster that answers, with the read endpoints called
\* by either tenant while the job runs, is reconciled and is collected.
ReadCalls == {1}

ReadInit == Init /\ k8s_available

ReadNext ==
    \/ \E s \in ReadCalls : SubmitBegin(s, MainRequests)
    \/ \E s \in ReadCalls : CheckConcurrent(s)
    \/ \E s \in ReadCalls : InsertRow(s)
    \/ \E s \in ReadCalls : EnsureNamespace(s, {AllOk})
    \/ \E s \in ReadCalls : CreateJob(s, {"ok"})
    \/ Reconciler
    \/ \E j \in ReadCalls : P4Commit(j)
    \/ \E j \in ReadCalls : WorkloadStart(j)
    \/ \E j \in ReadCalls : WorkloadFinish(j)
    \/ \E j \in ReadCalls : WorkloadDelete(j)
    \/ \E j \in ReadCalls : UploadFinish(j)
    \/ \E j \in ReadCalls, t \in TenantIds : GetJobStatus(j, t)
    \/ \E j \in ReadCalls, t \in TenantIds : GetJobLogs(j, t)
    \/ \E j \in ReadCalls, t \in TenantIds : StreamJobLogs(j, t)
    \/ \E j \in ReadCalls, t \in TenantIds : GetJobResults(j, t)

ReadSpec == ReadInit /\ [][ReadNext]_vars

\* One submission on an object-store cluster, with every thread of the
\* service and every controller of the orchestrator scheduled fairly.
CleanupCalls == {1}

CleanupInit == Init /\ k8s_available /\ storage_type = "s3"

CleanupSubmission ==
    \/ \E s \in CleanupCalls : SubmitBegin(s, MainRequests)
    \/ \E s \in CleanupCalls : CheckConcurrent(s)
    \/ \E s \in CleanupCalls : InsertRow(s)
    \/ \E s \in CleanupCalls : EnsureNamespace(s, {AllOk})
    \/ \E s \in CleanupCalls : CreateJob(s, {"ok"})

CleanupSweeps == Reconciler \/ \E j \in CleanupCalls : P4Commit(j)

CleanupOrchestrator ==
    \/ \E j \in CleanupCalls : WorkloadStart(j)
    \/ \E j \in CleanupCalls : WorkloadFinish(j)
    \/ \E j \in CleanupCalls : WorkloadDelete(j)
    \/ \E j \in CleanupCalls : UploadFinish(j)
    \/ \E j \in CleanupCalls : UploadDelete(j)

CleanupNext ==
    \/ Tick
    \/ CleanupSubmission
    \/ CleanupSweeps
    \/ CleanupOrchestrator
    \/ \E j \in CleanupCalls : CleanerRun(j)
    \/ \E j \in CleanupCalls : SweepJob(j)

CleanupSpec ==
    /\ CleanupInit /\ [][CleanupNext]_vars
    /\ WF_vars(Tick) /\ WF_vars(CleanupSubmission) /\ WF_vars(CleanupSweeps)
    /\ WF_vars(CleanupOrchestrator)
    /\ \A j \in CleanupCalls : WF_vars(CleanerRun(j)) /\ WF_vars(SweepJob(j))

\* The orphan sweeper over a cluster where config blobs come and go, with a
\* state store that holds a row of an earlier run and gets a new one.
SweepCalls == {1}

SweepInit ==
    /\ k8s_available \in BOOLEAN
    /\ storage_type = "pvc"
    /\ now = 1
    /\ tenants = [t \in TenantIds |->
                    IF t = "acme" THEN TenantRow(t, 2, 2, 2) ELSE TenantRow(t, 1, 3, 2)]
    /\ \E st \in Active \cup Terminal : jobs = (MaxCalls :> OldRow(st))
    /\ call = [s \in Calls |->
                 [pc |-> "idle", tenant |-> NoTenant, req |-> NoRequest,
                  result |-> "none", detail |-> "", atcap |-> FALSE]]
    /\ k8sJob = [j \in JobIds |-> NoWorkload]
    /\ nsObj = [n \in Namespaces |-> NoNs]
    /\ cms = [j \in JobIds |-> {}]
    /\ pod = NoPod
    /\ relay = NoRelay
    /\ configmaps = {}
    /\ sweeper = NoSweeper
    /\ pool = NoPool
    /\ completed = {}
    /\ reads = NoReads
    /\ side = [j \in JobIds |-> NoSide]
    /\ cleaners = {}
    /\ rec = [pc |-> "sleep", snap |-> <<>>, tx |-> NULL, up |-> NoUpload]
    /\ obs = NoObs

SweepNext ==
    \/ Tick
    \/ \E s \in SweepCalls : SubmitBegin(s, MainRequests)
    \/ \E s \in SweepCalls : CheckConcurrent(s)
    \/ \E s \in SweepCalls : InsertRow(s)
    \/ BlobCreate
    \/ SweeperWake
    \/ \E ns \in AllNamespaces : SweeperList(ns)
    \/ \E cm \in configmaps \cup sweeper.configmaps : SweeperBlob(cm)
    \/ SweeperNext

SweepSpec == SweepInit /\ [][SweepNext]_vars

\* The service on an object store, where the commit of a terminal edge can
\* fail after the upload side-workload was emitted.
CommitInit == Init /\ k8s_available /\ storage_type = "s3"

CommitNext ==
    \/ \E s \in Calls : SubmitBegin(s, MainRequests)
    \/ \E s \in Calls : CheckConcurrent(s)
    \/ \E s \in Calls : InsertRow(s)
    \/ \E s \in Calls : EnsureNamespace(s, {AllOk})
    \/ \E s \in Calls : CreateJob(s, {"ok"})
    \/ Reconciler
    \/ \E j \in JobIds : P4Commit(j)
    \/ \E j \in JobIds : P4CommitFails(j)
    \/ Orchestrator

CommitSpec == CommitInit /\ [][CommitNext]_vars

\* The threads of the process around the pool: the HTTP handlers and the
\* orphan sweeper entering and leaving get_db blocks, the reconciler
\* sweeping an empty state store.
PoolInit == Init /\ k8s_available /\ storage_type = "pvc"

PoolNext ==
    \/ \E w \in Workers \ {"reconciler"} : GetDb(w)
    \/ \E w \in Workers \ {"reconciler"} : BlockEnd(w)
    \/ SweepStart
    \/ SweepStartFails
    \/ P2Select
    \/ P3Select
    \/ P4Select
    \/ SweepEnd

PoolSpec == PoolInit /\ [][PoolNext]_vars

\* One log stream and the pod it follows.
RelayNext ==
    \/ RelayOpen
    \/ FindPod
    \/ WaitPod
    \/ TailRead
    \/ TailPhase
    \/ CollectFinal
    \/ PodStep

RelaySpec == Init /\ [][RelayNext]_vars

\* The relay with its generator driven by the client for as long as the
\* stream is open; the pod moves when it moves.
RelaySteps == RelayOpen \/ FindPod \/ WaitPod \/ TailRead \/ TailPhase \/ CollectFinal

RelayFairSpec == Init /\ [][RelayNext]_vars /\ WF_vars(RelaySteps)

(***************************************************************************)
(* Claims.                                                                 *)
(***************************************************************************)
Rows == DOMAIN jobs

\* The status a step writes to row j, with the status it had: <<old, new>>.
StatusChange(j) == <<jobs[j].status, jobs'[j].status>>

\* C1: the durable status never moves backwards: no step changes the status
\* of a SUCCEEDED or FAILED row (and no step removes the row), and no step
\* takes a RUNNING row back to PENDING.
C1_StatusNeverBackwards ==
    [][\A j \in Rows :
         /\ j \in DOMAIN jobs'
         /\ jobs[j].status \in Terminal => jobs'[j].status = jobs[j].status
         /\ jobs[j].status = "RUNNING" => jobs'[j].status # "PENDING"]_vars

\* C1 happens: a later sweep has fetched a terminal row for one of its
\* passes while another row is RUNNING.
C1_Witness ==
    \E j \in Rows, k \in Rows :
        /\ jobs[j].status \in Terminal
        /\ rec.pc \in {"p1", "p2", "p3"} /\ j \in DOMAIN rec.snap
        /\ jobs[k].status = "RUNNING" /\ jobs[k].started_at # NULL

\* C2 as stated: the distinct status values of a row form a prefix of
\* PENDING, RUNNING, T: a row starts PENDING and every change of status is
\* PENDING -> RUNNING or RUNNING -> T.
C2_ChainOnly ==
    [][\A j \in DOMAIN jobs' :
         IF j \notin Rows THEN jobs'[j].status = "PENDING"
         ELSE \/ jobs'[j].status = jobs[j].status
              \/ StatusChange(j) \in {<<"PENDING", "RUNNING">>}
                    \cup {<<"RUNNING", t>> : t \in Terminal}]_vars

\* C2 amended: the distinct status values of a row are PENDING, then
\* optionally RUNNING, then optionally one terminal status; RUNNING is
\* skipped when the reconciler's first informative read of the workload is a
\* finished workload or a 404.
C2_StatusSequence ==
    [][\A j \in DOMAIN jobs' :
         IF j \notin Rows THEN jobs'[j].status = "PENDING"
         ELSE \/ jobs'[j].status = jobs[j].status
              \/ StatusChange(j) \in {<<"PENDING", "RUNNING">>}
                    \cup {<<"RUNNING", t>> : t \in Terminal}
                    \cup {<<"PENDING", t>> : t \in Terminal}]_vars

\* C2 happens: one row went PENDING, RUNNING, SUCCEEDED (its started_at was
\* written by the RUNNING edge before the workload's pod finished), another
\* went from PENDING to FAILED by the 404 handler, which leaves started_at null.
C2_Witness ==
    \E j \in Rows, k \in Rows :
        /\ jobs[j].status = "SUCCEEDED" /\ jobs[j].result_location # "NULL"
        /\ jobs[k].status = "FAILED" /\ jobs[k].started_at = NULL

\* The sweep in progress has completed its four passes.
SweepDone == rec.pc = "p4" /\ DOMAIN rec.snap = {}

\* C3 as stated: result_location is populated exactly for terminal rows: an
\* active row has it null, and a row that was SUCCEEDED or FAILED when a sweep
\* began has it non-null when that sweep has completed.
C3_LocationIffTerminal ==
    /\ \A j \in Rows : jobs[j].status \in Active => jobs[j].result_location = "NULL"
    /\ SweepDone =>
         \A j \in obs.terminalBefore : jobs[j].result_location # "NULL"

\* C4 as stated: a terminal row has finished_at non-null in every state, and
\* a row that was terminal when a sweep began has started_at non-null when
\* that sweep has completed.
C4_TimestampsAfterOneSweep ==
    /\ \A j \in Rows : jobs[j].status \in Terminal => jobs[j].finished_at # NULL
    /\ SweepDone => \A j \in obs.terminalBefore : jobs[j].started_at # NULL

\* C4 amended: a terminal row has finished_at non-null in every state; a row
\* that was terminal when a sweep began has started_at non-null when that
\* sweep has completed, unless the sweep's read of its workload failed with
\* an error other than 404; the backfill writes the workload's start_time
\* when the read answers and reports one, and submitted_at when the read
\* answers without one or returns 404.
C4_TimestampsBackfilled ==
    /\ \A j \in Rows : jobs[j].status \in Terminal => jobs[j].finished_at # NULL
    /\ SweepDone =>
         \A j \in obs.terminalBefore :
            /\ obs.p1[j] # "err" => jobs[j].started_at # NULL
            /\ obs.p1[j] = "ok" /\ obs.p1st[j] # NULL
                  => jobs[j].started_at = obs.p1st[j]
            /\ (obs.p1[j] = "404" \/ (obs.p1[j] = "ok" /\ obs.p1st[j] = NULL))
                  => jobs[j].started_at = jobs[j].submitted_at

\* C4 happens: a completed sweep has backfilled started_at of a row that was
\* already terminal from the start_time its workload reports.
C4_Witness ==
    /\ SweepDone
    /\ \E j \in obs.terminalBefore :
          /\ obs.p1[j] = "ok" /\ obs.p1st[j] # NULL
          /\ jobs[j].started_at = obs.p1st[j]
          /\ jobs[j].finished_at # NULL

\* C5 as stated: whenever the timestamps of a row are defined they satisfy
\* submitted_at <= started_at <= finished_at.
C5_TimestampOrder ==
    \A j \in Rows :
        /\ jobs[j].started_at # NULL => jobs[j].submitted_at <= jobs[j].started_at
        /\ jobs[j].finished_at # NULL => jobs[j].submitted_at <= jobs[j].finished_at
        /\ jobs[j].started_at # NULL /\ jobs[j].finished_at # NULL
              => jobs[j].started_at <= jobs[j].finished_at

\* The rows of tenant t that are PENDING or RUNNING, counted from the table.
ActiveRowsOf(t) == {j \in Rows : jobs[j].tenant_id = t /\ jobs[j].status \in Active}

\* C6: for every tenant, under every interleaving of its concurrent
\* submit_job calls, the number of its PENDING or RUNNING rows is at most its
\* max_concurrent_jobs after each admission (rows only become active by an
\* admission, so: in every state).
C6_ActiveWithinCap ==
    \A t \in TenantIds : Cardinality(ActiveRowsOf(t)) <= tenants[t].max_concurrent_jobs

\* C6 happens: two calls of one tenant are in flight together, one has
\* inserted its row and brought the tenant to its cap while the other is
\* still suspended in its payload read.
C6_Witness ==
    \E s \in Calls, c \in Calls :
        /\ s # c /\ call[s].tenant.tenant_id = call[c].tenant.tenant_id
        /\ call[s].pc = "inserted" /\ call[c].pc = "reading"
        /\ Cardinality(ActiveRowsOf(call[s].tenant.tenant_id))
              = call[s].tenant.max_concurrent_jobs

\* The step in which call s, its payload valid, runs the concurrency check.
CountStep(s) ==
    /\ call[s].pc = "reading" /\ call'[s].pc # "reading"
    /\ validate_and_extract_zip(call[s].req.size, call[s].req.zip) = "ok"

\* C7: a submission made while the tenant has at least max_concurrent_jobs
\* PENDING or RUNNING rows is rejected with 429; the rejecting step inserts no
\* row and writes nothing to the orchestrator, the rejected call does nothing
\* afterwards, and no row, workload or config blob of it ever exists.
C7_RejectedAtCap ==
    /\ [](\A s \in Calls : call[s].result = "429" =>
             /\ call[s].pc = "done" /\ s \notin Rows
             /\ ~k8sJob[s].exists /\ cms[s] = {} /\ side[s] = NoSide)
    /\ [][\A s \in Calls :
            /\ (/\ CountStep(s)
                /\ Cardinality(ActiveRowsOf(call[s].tenant.tenant_id))
                      >= call[s].tenant.max_concurrent_jobs)
               => /\ call'[s].pc = "done" /\ call'[s].result = "429"
                  /\ UNCHANGED <<jobs, k8sJob, nsObj, cms, side, cleaners>>
            /\ call[s].result = "429" => call'[s] = call[s]]_vars

\* C7 happens: a call was rejected with 429 while a row of its tenant is RUNNING.
C7_Witness ==
    \E s \in Calls, j \in Rows :
        /\ call[s].result = "429"
        /\ jobs[j].tenant_id = call[s].tenant.tenant_id /\ jobs[j].status = "RUNNING"

\* The resource request lies outside [1, max_cpu] x [1, max_memory_gi].
OutOfBounds(req, tenant) ==
    \/ req.cpu < 1 \/ req.cpu > tenant.max_cpu
    \/ req.mem < 1 \/ req.mem > tenant.max_memory_gi

\* C8: submit_job rejects with the resource-request 400 exactly when
\* cpu_request is outside [1, tenant.max_cpu] or memory_gi is outside
\* [1, tenant.max_memory_gi]; the rejection comes in the call's first step,
\* whatever its payload and whatever the tenant's job count; and every
\* inserted row satisfies both bounds against the tenant's limits.
C8_ResourceBounds ==
    /\ \A s \in Calls : call[s].pc # "idle" =>
          /\ call[s].result \in {"400-cpu", "400-memory"}
                <=> OutOfBounds(call[s].req, call[s].tenant)
          /\ OutOfBounds(call[s].req, call[s].tenant) => call[s].pc = "done"
    /\ \A j \in Rows :
          /\ 1 <= jobs[j].cpu_request
          /\ jobs[j].cpu_request <= tenants[jobs[j].tenant_id].max_cpu
          /\ 1 <= jobs[j].memory_gi
          /\ jobs[j].memory_gi <= tenants[jobs[j].tenant_id].max_memory_gi

\* C8 happens: a request for exactly max_cpu cores was admitted and its row
\* inserted, and a request for max_cpu + 1 cores carrying an oversize payload
\* was rejected for its cpu_request.
C8_Witness ==
    \E s \in Calls, c \in Calls :
        /\ s \in Rows /\ jobs[s].cpu_request = call[s].tenant.max_cpu
        /\ call[c].result = "400-cpu"
        /\ call[c].req.cpu = call[c].tenant.max_cpu + 1
        /\ call[c].req.size > FileLimit

\* C9: for a call with a valid resource request that has run past its payload
\* read: a payload of 0 bytes is rejected as empty; a payload of 1 to
\* MAX_FILE_SIZE_MB * 2^20 bytes passes the size check; a payload of
\* MAX_FILE_SIZE_MB * 2^20 + 1 bytes or more is rejected with 413, also when
\* the tenant is at its job cap.
C9_PayloadSize ==
    \A s \in Calls :
        (/\ call[s].pc \notin {"idle", "reading"}
         /\ ~OutOfBounds(call[s].req, call[s].tenant))
        => /\ call[s].req.size = 0 => call[s].result = "400-empty"
           /\ (call[s].req.size >= 1 /\ call[s].req.size <= MAX_FILE_SIZE_MB * 1048576)
                 => call[s].result \notin {"413", "400-empty"}
           /\ call[s].req.size >= MAX_FILE_SIZE_MB * 1048576 + 1
                 => call[s].result = "413"

\* C9 happens: a payload of exactly the limit was admitted and its row
\* inserted, and a payload one byte larger was rejected with 413 in a slice
\* in which its tenant was at the job cap.
C9_Witness ==
    \E s \in Calls, c \in Calls :
        /\ c \in Rows /\ call[c].req.size = MAX_FILE_SIZE_MB * 1048576
        /\ call[s].result = "413" /\ call[s].atcap
        /\ call[s].req.size = MAX_FILE_SIZE_MB * 1048576 + 1

\* The step in which the submission of call s ends in an emission failure:
\* ensure_tenant_namespace or create_k8s_job raises.
EmissionFails(s) ==
    /\ call[s].pc \in {"inserted", "ensured"}
    /\ call'[s].pc = "done" /\ call'[s].result \in {"500", "503"}

\* The rows a completed sweep owes a FAILED status: their submission had
\* failed when the sweep began and the sweep's read of their workload did
\* not fail (the orchestrator was reachable).
OwedFailed == {j \in obs.failedBefore : obs.p4[j] # "err"}

\* C10 as stated: when workload emission fails the job row exists with
\* status PENDING, and once the next sweep has completed with the
\* orchestrator reachable the row is FAILED.
C10_PendingThenFailed ==
    /\ [][\A s \in Calls :
            EmissionFails(s) => s \in Rows /\ jobs'[s].status = "PENDING"]_vars
    /\ [](SweepDone => \A j \in OwedFailed : jobs[j].status = "FAILED")

\* C10 amended: when workload emission fails the job row exists and the
\* failing step leaves the table as it is, the row being PENDING, or already
\* FAILED when a sweep read its workload (404) between the insert and the
\* failure; once the next sweep has completed with the orchestrator
\* reachable the row is FAILED.
C10_LeftThenFailed ==
    /\ [][\A s \in Calls :
            EmissionFails(s) =>
               /\ s \in Rows /\ jobs' = jobs
               /\ jobs[s].status \in {"PENDING", "FAILED"}]_vars
    /\ [](SweepDone => \A j \in OwedFailed : jobs[j].status = "FAILED")

\* C10 happens: a sweep has completed that began after the submission of a
\* row had failed, found the row still active and left it FAILED, by the 404
\* handler (which writes finished_at and leaves started_at null).
C10_Witness ==
    /\ SweepDone
    /\ \E j \in OwedFailed :
          /\ j \notin obs.terminalBefore
          /\ jobs[j].status = "FAILED"
          /\ jobs[j].finished_at # NULL /\ jobs[j].started_at = NULL

\* The step in which pass 4 handles the fetched row j.
P4Step(j) == rec.pc = "p4" /\ j \in DOMAIN rec.snap /\ j \notin DOMAIN rec'.snap

\* A 404 read in pass 4 leaves the row FAILED with finished_at set.
NotFoundFails ==
    [][\A j \in Rows :
         (P4Step(j) /\ obs'.p4[j] = "404")
         => jobs'[j].status = "FAILED" /\ jobs'[j].finished_at # NULL]_vars

\* C11 as stated: a 404 read of an active row's workload makes the same sweep
\* set the row FAILED with finished_at non-null, and after a completed sweep
\* no row whose workload is absent from the orchestrator is PENDING or RUNNING.
C11_NoAbsentActive ==
    /\ NotFoundFails
    /\ [](SweepDone =>
            \A j \in Rows : ~k8sJob[j].exists => jobs[j].status \notin Active)

\* C11 amended: a 404 read of an active row's workload makes the same sweep
\* set the row FAILED with finished_at non-null; after a completed sweep a
\* row is still active with its workload absent only if the sweep read no 404
\* for it: its read failed with another error, the row was inserted after the
\* sweep fetched the active rows, or the workload went away after it was read.
C11_NotFoundMarksFailed ==
    /\ NotFoundFails
    /\ [](SweepDone =>
            \A j \in Rows :
               (~k8sJob[j].exists /\ jobs[j].status \in Active)
               => obs.p4[j] \in {"err", "none", "ok"})

\* C11 happens: a sweep has completed in which the workload of a RUNNING row
\* (its started_at written by the RUNNING edge) read 404 and the row is FAILED.
C11_Witness ==
    /\ SweepDone
    /\ \E j \in Rows :
          /\ obs.p4[j] = "404" /\ jobs[j].status = "FAILED"
          /\ jobs[j].started_at # NULL /\ jobs[j].finished_at # NULL
          /\ j \notin obs.terminalBefore

\* The encoded length of the payload of submission s, and a submission whose
\* workload has been emitted with its config blobs.
EncodedLen(s) == B64Len(call[s].req.size)
Emitted(s) == call[s].pc = "done" /\ call[s].result = "200"
Whole(len) == <<[start |-> 0, end |-> len]>>

\* C14: for every encoded payload split into N >= 2 shards, appending the
\* shards' chunk values in the numeric index order 0..N-1 the entry-point
\* script uses yields exactly the original base64 string: every character
\* once, in its place.
C14_RoundTrip ==
    \A s \in Calls :
       (Emitted(s) /\ EncodedLen(s) > max_chunk_size)
       => /\ num_chunks(EncodedLen(s)) >= 2
          /\ Reassemble(cms[s], EncodedLen(s)) = Whole(EncodedLen(s))

\* C14 happens: a payload stored in more than ten shards (where numeric and
\* lexicographic order of the names differ) has been emitted and reassembles.
C14_Witness ==
    \E s \in Calls :
       /\ Emitted(s) /\ Cardinality(cms[s]) > 10
       /\ Reassemble(cms[s], EncodedLen(s)) = Whole(EncodedLen(s))

CeilDiv(a, b) == IF a % b = 0 THEN a \div b ELSE (a \div b) + 1

\* C15: an encoded payload of length L <= 900000 is stored in exactly one
\* config blob, sumo-<shortId>; one of length L > 900000 in exactly
\* ceil(L/900000) blobs sumo-<shortId>-chunk0 .. chunk(N-1), each non-empty
\* and of length at most 900000; L = 900000 gives 1 blob, L = 900001 gives 2.
C15_ShardCount ==
    /\ Cardinality(BlobNames(900000)) = 1
    /\ Cardinality(BlobNames(900001)) = 2
    /\ \A s \in Calls :
          Emitted(s) =>
             LET L == EncodedLen(s)
             IN  IF L <= 900000
                 THEN cms[s] = {[kind |-> "single", i |-> 0, start |-> 0, end |-> L]}
                 ELSE /\ Cardinality(cms[s]) = CeilDiv(L, 900000)
                      /\ {b.i : b \in cms[s]} = 0..(CeilDiv(L, 900000) - 1)
                      /\ \A b \in cms[s] :
                            /\ b.kind = "chunk"
                            /\ b.end - b.start >= 1
                            /\ b.end - b.start <= 900000

\* C15 happens: a payload of encoded length exactly 900000 sits in one blob
\* and one of encoded length 900004 in two chunks.
C15_Witness ==
    \E s, t \in Calls :
       /\ Emitted(s) /\ EncodedLen(s) = 900000 /\ Cardinality(cms[s]) = 1
       /\ Emitted(t) /\ EncodedLen(t) = 900004 /\ Cardinality(cms[t]) = 2

\* The step in which create_k8s_job runs for submission s and returns.
CreateStep(s) == call[s].pc = "ensured" /\ call'[s].pc = "done"
Sharded(s) == EncodedLen(s) > max_chunk_size

\* The workload of a sharded payload is created only with all N shards there.
WorkloadAfterShards ==
    \A s \in Calls :
       (CreateStep(s) /\ Sharded(s) /\ k8sJob'[s].exists)
       => cms'[s] = BlobNames(EncodedLen(s))

\* C12 as stated: for a payload sharded into N shards the workload is created
\* only after all N shard blobs exist, and when creating shard i fails, shards
\* 0..i-1 are all deleted and no workload is created when the error returns.
C12_ShardsAllOrNothing ==
    [][/\ WorkloadAfterShards
       /\ \A s \in Calls :
             (CreateStep(s) /\ Sharded(s)
                /\ call'[s].detail = "Failed to store files")
             => cms'[s] = {} /\ ~k8sJob'[s].exists]_vars

\* C12 amended: for a payload sharded into N shards the workload is created
\* only after all N shard blobs exist; when creating shard i fails no workload
\* is created, shard i and the later ones never exist, and one delete is
\* attempted for each of shards 0..i-1 with its failure swallowed, so the
\* blobs left when the error returns are among shards 0..i-1.
C12_ShardsDeletedBestEffort ==
    [][/\ WorkloadAfterShards
       /\ \A s \in Calls :
             (CreateStep(s) /\ Sharded(s)
                /\ call'[s].detail = "Failed to store files")
             => /\ ~k8sJob'[s].exists
                /\ \E at \in BlobNames(EncodedLen(s)) :
                      cms'[s] \subseteq {n \in BlobNames(EncodedLen(s)) : n.i < at.i}]_vars

\* C12 happens: creating a shard of a three-shard payload has failed, the
\* error has been returned, and an earlier shard is still there.
C12_Witness ==
    \E s \in Calls :
       /\ call[s].pc = "done" /\ call[s].detail = "Failed to store files"
       /\ Cardinality(BlobNames(EncodedLen(s))) = 3
       /\ cms[s] # {} /\ ~k8sJob[s].exists

TenantRowsInUse ==
    {tenants[t] : t \in TenantIds}
    \cup {call[s].tenant : s \in {c \in Calls : call[c].pc # "idle"}}

AllPresent(o) == o.ns /\ o.quota.exists /\ o.lr.exists /\ o.pvc

\* C16: ensure_tenant_namespace called twice in a row for the same tenant
\* with unchanged limits, the orchestrator calls succeeding, performs no
\* orchestrator write (no create, no patch) in the second call and leaves
\* namespace, quota, limit range and result volume claim all present.
C16_EnsureIdempotent ==
    k8s_available =>
       \A tenant \in TenantRowsInUse :
          LET first == ensure_tenant_namespace(nsObj[tenant.namespace], tenant, AllOk)
              second == ensure_tenant_namespace(first.o, tenant, AllOk)
          IN  /\ ~first.raised /\ ~second.raised
              /\ second.writes = {}
              /\ second.o = first.o
              /\ AllPresent(second.o)

\* C16 happens: two submissions of one tenant, its limits unchanged, have
\* both been through ensure_tenant_namespace on a reachable cluster, and the
\* tenant's four objects are there.
C16_Witness ==
    /\ k8s_available
    /\ \E s, c \in Calls :
          /\ call[s].pc = "done" /\ call[s].result = "200"
          /\ call[c].pc = "ensured"
          /\ s # c /\ call[s].tenant = call[c].tenant
          /\ call[s].tenant = tenants[call[s].tenant.tenant_id]
          /\ AllPresent(nsObj[call[s].tenant.namespace])

\* C17: after a limit update followed by ensure_tenant_namespace the existing
\* resource quota equals the tenant row in every value (requests.cpu =
\* limits.cpu = max_cpu, requests.memory = limits.memory = max_memory_gi Gi,
\* pods = max_concurrent_jobs), whichever of the three limits was changed.
C17_QuotaFollowsUpdate ==
    [][\A t \in TenantIds :
          (tenants'[t] # tenants[t] /\ k8s_available
             /\ nsObj[tenants[t].namespace].quota.exists)
          => nsObj'[tenants[t].namespace].quota = QuotaOf(tenants'[t])]_vars

\* A step that emits something of the cleanup side-workload of job j.
CleanupEmitted(j) ==
    \/ side'[j].cleanupCM /\ ~side[j].cleanupCM
    \/ side'[j].cleanupJob /\ ~side[j].cleanupJob

\* C18: the volume-cleanup side-workload cleanup-<shortId> of a job is never
\* emitted unless the reconciler has observed the upload side-workload
\* upload-<shortId> as succeeded (it emits it in the step in which pass 3 reads
\* that success and records it in result_files); it is never emitted on a
\* volume backend or for a FAILED job.
C18_CleanupOnlyAfterUpload ==
    /\ [][\A j \in JobIds :
             CleanupEmitted(j)
             => /\ rec.pc = "p3" /\ j \in DOMAIN rec.snap
                /\ side[j].uploadJob = "succeeded"
                /\ storage_type # "pvc"
                /\ jobs[j].status = "SUCCEEDED"
                /\ jobs'[j].result_files = "uploaded"]_vars
    /\ [](\A j \in JobIds :
             (side[j].cleanupCM \/ side[j].cleanupJob)
             => /\ storage_type # "pvc"
                /\ j \in Rows /\ jobs[j].status = "SUCCEEDED"
                /\ jobs[j].result_files = "uploaded")

\* C18 happens: on an object-store backend the cleanup side-workload of a
\* SUCCEEDED job exists, its upload having been recorded as done.
C18_Witness ==
    \E j \in Rows :
       /\ side[j].cleanupJob /\ storage_type = "s3"
       /\ jobs[j].status = "SUCCEEDED" /\ jobs[j].result_files = "uploaded"

\* C19: on an object-store backend the upload side-workload is created only
\* after the row's transition to SUCCEEDED has been committed: in no reachable
\* state does upload-<shortId> exist in the orchestrator while the job row's
\* committed status is still PENDING or RUNNING.
C19_UploadAfterCommit ==
    \A j \in Rows :
       (storage_type \in Cloud /\ side[j].uploadJob # "absent")
       => jobs[j].status \notin Active

\* The step in which pass 4 reads the workload of the fetched row j and the
\* read answers.
P4ReadOk(j) ==
    /\ rec.pc = "p4" /\ j \in DOMAIN rec.snap
    /\ obs.p4[j] = "none" /\ obs'.p4[j] = "ok"

\* C20: for a row in {PENDING, RUNNING} whose workload is readable, the sweep
\* writes FAILED if the workload has condition Failed=True, SUCCEEDED if it has
\* Complete=True (on an object-store backend in the row update that follows
\* the upload emission), RUNNING if it has no terminal condition, active >= 1
\* and the row is PENDING; with no conditions and active = 0 the row is left
\* unchanged.
C20_StatusMapping ==
    [][/\ \A j \in Rows :
             P4ReadOk(j) =>
                /\ jobs[j].status \in Active
                /\ k8sJob[j].cond = "Failed" => jobs'[j].status = "FAILED"
                /\ k8sJob[j].cond = "Complete" =>
                      \/ jobs'[j].status = "SUCCEEDED"
                      \/ storage_type \in Cloud /\ rec'.up.j = j /\ jobs'[j] = jobs[j]
                /\ (k8sJob[j].cond = "none" /\ k8sJob[j].active >= 1
                      /\ jobs[j].status = "PENDING") => jobs'[j].status = "RUNNING"
                /\ (k8sJob[j].cond = "none" /\ k8sJob[j].active = 0)
                      => jobs'[j] = jobs[j]
       /\ \A j \in Rows :
             (rec.up.j = j /\ rec'.up = NoUpload) => jobs'[j].status = "SUCCEEDED"]_vars

\* C20 happens: in one sweep a row was written FAILED from a readable workload
\* with condition Failed and another RUNNING from a workload with an active
\* pod and no condition.
C20_Witness ==
    \E j, k \in Rows :
       /\ obs.p4[j] = "ok" /\ j \notin obs.terminalBefore
       /\ k8sJob[j].exists /\ k8sJob[j].cond = "Failed" /\ jobs[j].status = "FAILED"
       /\ obs.p4[k] = "ok"
       /\ k8sJob[k].exists /\ k8sJob[k].cond = "none" /\ k8sJob[k].active = 1
       /\ jobs[k].status = "RUNNING"

\* C21: on an object-store backend the result_location recorded for a
\* SUCCEEDED job (the prefix get_result_storage_info builds from the row's
\* namespace) equals the prefix under which the job's upload side-workload
\* writes its files (built from the row's tenant_id), for every tenant.
C21_LocationIsUploadPrefix ==
    \A j \in Rows :
       (storage_type \in Cloud /\ jobs[j].status = "SUCCEEDED"
          /\ jobs[j].result_location = StoragePrefix(storage_type))
       => get_result_storage_info_prefix(j, jobs[j].k8s_namespace, storage_type)
          = upload_script_prefix(j, jobs[j].tenant_id, storage_type)

\* The reconciler's own steps.
ReconcilerStep == Reconciler \/ \E j \in JobIds : P4Commit(j)

LastEvent == relay.events[Len(relay.events)]
ClosedByErrors ==
    /\ relay.pc = "closed" /\ relay.last = "api"
    /\ relay.events # <<>> /\ LastEvent = Event("error", "Too many errors")

\* C23: the relay's counter is the number of orchestrator errors since the
\* last orchestrator call that answered, and it is 0 after every log read of
\* the tailing loop that answered; an orchestrator error closes the stream,
\* with a last error event, exactly when it is the 10th in a row, and the
\* stream is never closed by orchestrator errors after fewer than 10.
C23_FailurePolicy ==
    /\ [](/\ relay.consecutive_errors = relay.streak
          /\ relay.streak <= max_errors
          /\ ((relay.pc = "closed" /\ relay.last = "api")
                => (relay.streak = max_errors /\ ClosedByErrors))
          /\ ((relay.pc # "closed") => relay.streak < max_errors))
    /\ [][/\ (relay.pc = "tail" /\ relay'.last = "ok" /\ relay' # relay)
                => relay'.consecutive_errors = 0
          /\ (relay'.last = "api" /\ relay' # relay)
                => /\ relay'.consecutive_errors = relay.consecutive_errors + 1
                   /\ (relay'.pc = "closed") <=> (relay'.consecutive_errors = 10)
                   /\ (relay'.pc # "closed") => (relay'.events = relay.events)]_vars

C23_Witness == ClosedByErrors /\ relay.streak = 10 /\ Len(relay.events) > 2
(***************************************************************************)
(* C24.  Log relay completion.                                             *)
(***************************************************************************)
\* The number of log lines sent so far.
Delivered == Cardinality({i \in DOMAIN relay.events : relay.events[i].line > 0})

FinalStep == relay.pc = "final" /\ relay'.pc = "closed" /\ relay'.last = "ok"

\* C24: when the pod was seen Succeeded or Failed and the full log is read,
\* the relay sends the lines of the log after those already delivered, then
\* one status event with the phase, which is the last event, and closes; no
\* event follows a status event.
C24_FinalDeliversRest ==
    [][/\ FinalStep =>
            relay'.events =
                (relay.events
                   \o [i \in 1..(pod.lines - Delivered) |-> LineEvent(Delivered + i)])
                   \o <<Event("status", pod.phase)>>
       /\ \A i \in DOMAIN relay.events :
            relay.events[i].type = "status" => relay'.events = relay.events]_vars
(***************************************************************************)
(* C25.  Log relay pod discovery.                                          *)
(***************************************************************************)
Waiting == Event("message", "No pod found yet. Waiting...")
Tailing == relay.pc \in {"tail", "phase", "final"}
Listing == relay.pc \in {"find", "wait"} /\ relay'.last = "ok" /\ relay' # relay

\* C25: an empty first listing sends the waiting message and leads to one
\* more listing and no third; an empty second listing sends an error event
\* and closes the stream, which has not tailed and never will; a listing
\* that finds the pod sends the {pod, phase} event, and every line of the
\* log sent comes after that event.
C25_Discovery ==
    /\ [](/\ relay.lists <= 2
          /\ (relay.pc = "wait" \/ relay.lists = 2)
                => (relay.events # <<>> /\ relay.events[1] = Waiting)
          /\ Tailing => \E k \in DOMAIN relay.events : relay.events[k].type = "pod"
          /\ \A i \in DOMAIN relay.events :
                relay.events[i].line > 0
                   => \E k \in 1..(i - 1) : relay.events[k].type = "pod"
          /\ (relay.lists = 2 /\ relay.events = <<Waiting, Event("error", "Pod not found")>>)
                => (relay.pc = "closed" /\ relay.last_line_count = 0))
    /\ [][Listing =>
            /\ relay'.lists = relay.lists + 1
            /\ relay.pc = "find" <=> relay.lists = 0
            /\ (~pod.exists /\ relay.pc = "find")
                  => (relay'.pc = "wait" /\ relay'.events = <<Waiting>>)
            /\ (~pod.exists /\ relay.pc = "wait")
                  => /\ relay'.pc = "closed"
                     /\ relay'.events = <<Waiting, Event("error", "Pod not found")>>
            /\ pod.exists
                  => /\ relay'.pc = "tail"
                     /\ relay'.events = Append(relay.events, Event("pod", pod.phase))]_vars

C25_Witness ==
    /\ relay.lists = 2 /\ relay.pc = "closed"
    /\ relay.events = <<Waiting, Event("error", "Pod not found")>>
TerminalEdgeStep(j) ==
    /\ j \in DOMAIN jobs /\ jobs[j].status \in Active
    /\ jobs'[j].status \in Terminal /\ obs'.p4[j] = "ok"

\* A cleanup worker of job j runs.
CleanerStep(j) == j \in cleaners /\ j \notin cleaners'

\* The blobs of job k, by name, in the namespace of job j's worker.
Named(j, k, set) ==
    {configmap_name(k, b) : b \in IF jobs[k].k8s_namespace = jobs[j].k8s_namespace
                                  THEN set ELSE {}}

\* The name n begins with sumo-<shortId> of job j.
BeginsSumoShortId(n, j) == n[1] = "sumo-" /\ n[2] = ShortId(j)

\* C27 as stated: a terminal edge of the active-job pass schedules one
\* worker for the job, and the worker, when it runs, deletes every config
\* blob of the namespace whose name begins with sumo-<shortId> and no other.
C27_WorkerDeletesAll ==
    [][\A j \in JobIds :
          /\ TerminalEdgeStep(j) => (j \notin cleaners /\ cleaners' = cleaners \cup {j})
          /\ (CleanerStep(j) /\ jobs[j].status \in Terminal) =>
                \A k \in DOMAIN jobs :
                   /\ \A n \in Named(j, k, cms[k]) \ Named(j, k, cms'[k]) :
                         BeginsSumoShortId(n, j)
                   /\ \A n \in Named(j, k, cms'[k]) : ~BeginsSumoShortId(n, j)
                   /\ cms'[k] \subseteq cms[k]]_vars

\* C27, amended: a terminal edge of the active-job pass schedules one worker
\* for the job; the worker deletes only config blobs of the job's namespace
\* whose name begins with sumo-<shortId>, and all of them when the
\* orchestrator is there and every delete succeeds; a blob whose delete
\* fails, or every blob when the listing fails or there is no orchestrator,
\* stays.
C27_WorkerDeletesOnlyNamed ==
    [][\A j \in JobIds :
          /\ TerminalEdgeStep(j) => (j \notin cleaners /\ cleaners' = cleaners \cup {j})
          /\ CleanerStep(j) =>
                /\ \A k \in DOMAIN jobs :
                      /\ \A n \in Named(j, k, cms[k]) \ Named(j, k, cms'[k]) :
                            BeginsSumoShortId(n, j)
                      /\ cms'[k] \subseteq cms[k]
                      /\ jobs[k].k8s_namespace # jobs[j].k8s_namespace => cms'[k] = cms[k]
                /\ ~k8s_available => cms' = cms
                /\ ENABLED (CleanerRun(j) /\ cms'[j] = {})
                      \/ ~k8s_available]_vars

\* Two jobs of one namespace: the blobs of the one that SUCCEEDED are gone,
\* its worker is done; those of the other are there.
C27_Witness ==
    \E j, k \in DOMAIN jobs :
       /\ j # k /\ jobs[j].k8s_namespace = jobs[k].k8s_namespace
       /\ jobs[j].status = "SUCCEEDED" /\ j \notin cleaners /\ cms[j] = {}
       /\ cms[k] # {}
(***************************************************************************)
(* C28.  Connection-pool discipline.                                       *)
(***************************************************************************)
\* A get_db block of thread w ends in this step.
ExitStep(w) == w \in pool.used /\ pool'.last.w = w /\ pool'.last.how \in BlockEnds

\* C28: a block that ends puts its connection back exactly once, after the
\* commit when it ends normally, after a rollback and with the exception
\* re-raised otherwise; a get_db that gets no connection puts none back; at
\* no time are more than DB_POOL_MAX connections out, and a reconciler that
\* sleeps holds none.
C28_PoolDiscipline ==
    /\ [](/\ Cardinality(pool.used) <= DB_POOL_MAX
          /\ rec.pc = "sleep" => "reconciler" \notin pool.used)
    /\ [][/\ \A w \in Workers :
                ExitStep(w) =>
                   /\ pool'.used = pool.used \ {w}
                   /\ pool'.last.putconn = 1
                   /\ pool'.last.rollback = (pool'.last.how # "commit")
                   /\ pool'.last.raised = (pool'.last.how # "commit")
          /\ (pool' # pool /\ pool'.last.how = "PoolError")
                => /\ pool'.used = pool.used /\ pool'.last.putconn = 0
                   /\ Cardinality(pool.used) = DB_POOL_MAX
          /\ (pool' # pool /\ pool'.last.how = "yield")
                => /\ pool'.last.w \notin pool.used
                   /\ pool'.used = pool.used \cup {pool'.last.w}]_vars

\* The pool was full with the reconciler in it, and a block has just ended
\* by an exception: its connection is back.
C28_Witness ==
    /\ Cardinality(pool.used) = DB_POOL_MAX - 1 /\ "reconciler" \in pool.used
    /\ pool.last.how = "raise" /\ pool.last.putconn = 1
(***************************************************************************)
(* C29.  The reconciler's connection and the orchestrator calls.           *)
(***************************************************************************)
\* The reconciler reads a workload (and, for a row that SUCCEEDED on an
\* object store, creates the upload side-workload).
ClusterCallStep == \E j \in JobIds : P1Row(j) \/ P3Row(j) \/ P4Row(j)

\* C29: no orchestrator call of a sweep is made while the reconciler holds
\* a connection of the pool.
C29_NoConnectionDuringClusterCall ==
    [][ClusterCallStep => "reconciler" \notin pool.used]_vars
(***************************************************************************)
(* C30.  Degraded mode.                                                    *)
(***************************************************************************)
\* What a submission that fails the resource or payload validation returns.
ValidationErrors ==
    {"400-cpu", "400-memory", "400-empty", "400-badzip", "400-nocfg", "413"}

\* C30: without an orchestrator, every submission that passes the
\* validations ends with 503, whatever the tenant submitted before; nothing
\* is created in the orchestrator; the reconciler and the orphan sweeper
\* stay asleep and the rows stay as they were inserted.
C30_DegradedAlways503 ==
    ~k8s_available =>
       /\ \A s \in Calls :
             (call[s].pc = "done" /\ call[s].result \notin ValidationErrors)
                => call[s].result = "503"
       /\ \A j \in JobIds : ~k8sJob[j].exists /\ cms[j] = {} /\ side[j] = NoSide
       /\ \A n \in Namespaces : nsObj[n] = NoNs
       /\ rec.pc = "sleep" /\ sweeper.pc = "sleep" /\ configmaps = {}
       /\ \A j \in DOMAIN jobs :
             /\ jobs[j].status = "PENDING"
             /\ jobs[j].started_at = NULL /\ jobs[j].finished_at = NULL
(***************************************************************************)
(* C31.  The volume cleanup and the recorded result location.              *)
(***************************************************************************)
\* The cleanup side-workload of job j was emitted (its script blob at least).
CleanupEmittedFor(j) == side[j].cleanupCM \/ side[j].cleanupJob

\* C31: on an object store, a job whose volume cleanup was emitted has the
\* object-store prefix as its result_location, never the volume path, also
\* when its terminal edge was handled again after a commit that failed.
C31_CleanupImpliesPrefix ==
    storage_type \in Cloud =>
       \A j \in JobIds :
          CleanupEmittedFor(j)
             => (j \in DOMAIN jobs /\ jobs[j].result_location = "prefix")

\* One job has its cleanup emitted; another had its upload emitted, lost the
\* commit, and was handled again: its upload ran, its row holds no prefix,
\* and no cleanup was emitted for it.
C31_Witness ==
    \E j, k \in DOMAIN jobs :
       /\ side[j].cleanupJob /\ jobs[j].result_location = "prefix"
       /\ jobs[k].status = "SUCCEEDED" /\ jobs[k].result_location = ""
       /\ side[k].uploadJob = "succeeded" /\ ~CleanupEmittedFor(k)
(***************************************************************************)
(* C32.  A workload that completed.                                        *)
(***************************************************************************)
\* C32: the row of a job whose workload reached Complete=True is never
\* FAILED, whatever the order of sweeps, failed reads and the deletion of
\* the finished workload.
C32_CompleteNeverFailed ==
    \A j \in completed : j \in DOMAIN jobs => jobs[j].status # "FAILED"
(***************************************************************************)
(* C33.  The statuses get_job_status answers.                              *)
(***************************************************************************)
\* A get_job_status call for job j that answers 200.
StatusCall(j) ==
    /\ reads'.last.endpoint = "status" /\ reads'.last.job_id = j
    /\ reads'.last.code = 200
    /\ UNCHANGED core

Rank(status) == CASE status = "none" -> 0 [] status = "PENDING" -> 1
                  [] status = "RUNNING" -> 2 [] OTHER -> 3

\* C33: the statuses successive get_job_status calls return for one job
\* never go backwards along PENDING, RUNNING, terminal, a terminal status
\* once returned is returned by every later call, and the call leaves the
\* job row as it was.
C33_StatusReadsMonotone ==
    [][\A j \in JobIds :
         StatusCall(j) =>
            /\ jobs' = jobs
            /\ Rank(reads'.returned[j]) >= Rank(reads.returned[j])
            /\ reads.returned[j] \in Terminal
                  => reads'.returned[j] = reads.returned[j]]_vars
(***************************************************************************)
(* C34.  The config blobs of a job whose row is terminal.                  *)
(***************************************************************************)
HasBlobs(j) == cms[j] # {} \/ side[j].uploadCM \/ side[j].cleanupCM

\* C34: once the row of a job is terminal, by the terminal edge or by the
\* 404 path, every config blob made for the job (payload blob or shards,
\* upload script, cleanup script) is eventually deleted.
C34_BlobsEventuallyDeleted ==
    \A j \in JobIds :
       (j \in DOMAIN jobs /\ jobs[j].status \in Terminal /\ HasBlobs(j))
          ~> ~HasBlobs(j)
(***************************************************************************)
(* C35.  What the log relay has delivered when it closes.                  *)
(***************************************************************************)
IsLine(e) == e.type = "message" /\ e.line > 0
EmittedLines == SelectSeq(relay.events, IsLine)
ClosedOnPhase == relay.pc = "closed" /\ LastEvent.type = "status"

\* C35: when the stream closes on a terminal phase, the lines emitted are
\* the lines the pod has written, each exactly once and in log order.
C35_EveryLineOnceInOrder ==
    ClosedOnPhase =>
       /\ Len(EmittedLines) = pod.lines
       /\ \A i \in 1..Len(EmittedLines) : EmittedLines[i].line = i
(***************************************************************************)
(* C36.  The last event of a closed stream.                                *)
(***************************************************************************)
\* C36: a closed log stream has a last event, and it is a status event or
\* an error event, by whichever path the relay stopped.
C36_ClosesWithStatusOrError ==
    relay.pc = "closed" =>
       /\ relay.events # <<>>
       /\ LastEvent.type \in {"status", "error"}
(***************************************************************************)
(* C37.  Log relay termination.                                            *)
(***************************************************************************)
PodDone == ~pod.exists \/ pod.phase \in {"Succeeded", "Failed"}
PodLive == pod.exists /\ pod.phase \in {"Pending", "Running"}
CallAnswers == relay' = relay \/ relay'.last \in {"ok", "none"}
Closes == relay.pc # "closed" /\ relay'.pc = "closed"

\* C37: if the pod ends up Succeeded, Failed or gone and the orchestrator
\* calls stop failing, the relay closes; and while the pod is in a
\* non-terminal phase the relay closes only on the 10th consecutive
\* orchestrator error.
C37_Termination ==
    /\ (<>[]PodDone /\ <>[][CallAnswers]_vars) => <>(relay.pc = "closed")
    /\ [][(k8s_available /\ Closes /\ PodLive /\ pod' = pod)
            => relay'.streak >= max_errors]_vars

\* C37, with the exception handlers: if the pod ends up Succeeded, Failed
\* or gone and the orchestrator calls stop failing, the relay closes; and
\* while the pod is in a non-terminal phase the relay closes only on the
\* 10th consecutive orchestrator error of the tailing loop, or at once when
\* a pod listing of the discovery raises or a call of the tailing loop
\* raises something other than an orchestrator error.
C37_TerminationOrException ==
    /\ (<>[]PodDone /\ <>[][CallAnswers]_vars) => <>(relay.pc = "closed")
    /\ [][(k8s_available /\ Closes /\ PodLive /\ pod' = pod)
            => \/ relay'.streak >= max_errors /\ relay'.last = "api"
               \/ relay'.last = "exc" /\ relay'.streak = relay.streak]_vars

C37_Witness ==
    /\ relay.pc = "closed" /\ PodLive /\ relay.last = "api"
    /\ relay.consecutive_errors = max_errors
(***************************************************************************)
(* C38.  The tenant's quota once every operation has finished.             *)
(***************************************************************************)
Settled == \A s \in Calls : call[s].pc \in {"idle", "done"}

\* C38: once no submission is in flight and every limit update has run its
\* ensure_tenant_namespace, the resource quota and the limit range of each
\* tenant's namespace equal the limits in the tenant's row.
C38_QuotaEqualsRowWhenSettled ==
    (k8s_available /\ Settled) =>
       \A t \in TenantIds :
          LET o == nsObj[tenants[t].namespace]
          IN  /\ o.quota.exists => o.quota = QuotaOf(tenants[t])
              /\ o.lr.exists => o.lr = LimitRangeOf(tenants[t])
(***************************************************************************)
(* C39.  Tenant isolation of the read endpoints.                           *)
(***************************************************************************)
\* The last answer went to a tenant other than the one the job's row names.
ForeignRead(a) ==
    /\ a.endpoint \in {"status", "logs", "stream", "results"}
    /\ a.job_id \in DOMAIN jobs
    /\ jobs[a.job_id].tenant_id # a.tenant_id

\* C39: a read of a job by a tenant other than the row's (status, log
\* snapshot, log stream, results lookup) is answered 404 "Job not found"
\* with nothing of the row or the workload in it, and records no status
\* for the job.
C39_ForeignReadsNotFound ==
    /\ [](ForeignRead(reads.last) =>
            reads.last = [endpoint |-> reads.last.endpoint,
                          job_id |-> reads.last.job_id,
                          tenant_id |-> reads.last.tenant_id,
                          code |-> 404, status |-> "", body |-> "Job not found",
                          location |-> "", files |-> ""])
    /\ [][(reads' # reads /\ ForeignRead(reads'.last))
            => reads'.returned = reads.returned /\ UNCHANGED core]_vars

C39_Witness ==
    /\ ForeignRead(reads.last) /\ reads.last.endpoint = "results"
    /\ reads.last.code = 404
    /\ jobs[reads.last.job_id].status = "SUCCEEDED"
    /\ jobs[reads.last.job_id].result_location # "NULL"
    /\ k8sJob[reads.last.job_id].exists
(***************************************************************************)
(* C40.  Sweep quiescence.                                                 *)
(***************************************************************************)
AllTerminal == DOMAIN jobs # {} /\ \A j \in DOMAIN jobs : jobs[j].status \in Terminal

\* A step of a sweep that issues an UPDATE on a job row or emits a
\* side-workload.
SweepWrites ==
    \/ \E j \in JobIds : P2Row(j)
    \/ CleanupSweeps /\ (jobs' # jobs \/ side' # side)

\* C40: once every job row is terminal and the orchestrator's state has
\* stopped changing, from some sweep on no sweep issues an UPDATE on a job
\* row or emits a side-workload, for SUCCEEDED and FAILED rows alike.
C40_SweepsQuiesce ==
    (<>[]AllTerminal /\ <>[][~CleanupOrchestrator]_vars)
       => <>[][~SweepWrites]_vars
==================================================================================
